---------------------------- MODULE Spec2Model ----------------------------
(***************************************************************************)
(* WorkingData of nxtoolkit/nxphysobject.py: the index that stages the     *)
(* result of one bulk subtree query and serves it back by class, by dn     *)
(* and by dn prefix, and the vnid dictionaries derived from it.  Then,     *)
(* of the same file, Fan.get, the accessors and the equality of Link, and  *)
(* the dn parsing of Interface.                                            *)
(*                                                                         *)
(* Python values are modelled as follows.                                  *)
(*   - A string that the code slices, splits or joins (dn, encap,          *)
(*     fabEncap, name) is a sequence of one-character strings.             *)
(*   - A class name or a role, which the code only compares, is a string.  *)
(*   - A dict is a function whose DOMAIN is its set of keys.               *)
(*   - A list is a sequence.                                               *)
(*   - An item {cls: {'attributes': {...}}} of the decoded body is the     *)
(*     record [cls |-> cls, attributes |-> [...]]: items are single-tagged.*)
(*   - An uncaught exception ends the run: pc = "raised", exc its type.    *)
(***************************************************************************)
EXTENDS Integers, Sequences, FiniteSets, TLC

VARIABLES
    session,    \* self.session
    rawjson,    \* self.rawjson
    by_class,   \* self.by_class : class name -> list of items
    by_dn,      \* self.by_dn    : dn -> item
    vnid_dict,  \* self.vnid_dict: vnid -> record
    ctx_dict,   \* self.ctx_dict : context name -> vnid
    bd_dict,    \* self.bd_dict  : bridge-domain name -> vnid
    pc,         \* "new" (inside __init__, before add), "ready", "raised"
    exc,        \* type of the exception that ended the run, or "none"
    batch,      \* history: every item of every body handed to _index_objects
    ret,        \* the last call: its name and, for a lookup, arguments and returned value
    switch,     \* Fan.get: what the switch answers to the session's queries
    calls,      \* Fan.get: the urls given to session.get by the last call, in order
    parent,     \* Fan.get: the parent Fantray handed to the call, or None
    link,       \* a Link object: its fields
    pod,        \* the object link._parent refers to, with its children, or None
    examined,   \* the get_children calls of the last Link accessor, in order
    intf,       \* an Interface object: its fields, or None
    node_obj    \* a Node object: its fields, or None

vars == <<session, rawjson, by_class, by_dn, vnid_dict, ctx_dict, bd_dict,
          pc, exc, batch, ret, switch, calls, parent, link, pod, examined, intf,
          node_obj>>

\* The state of the WorkingData object.
indexVars == <<session, rawjson, by_class, by_dn, vnid_dict, ctx_dict, bd_dict,
               pc, exc, batch>>

\* The state of the other objects.
fanVars == <<switch, calls, parent>>
linkVars == <<link, pod, examined>>
intfVars == <<intf>>
nodeVars == <<node_obj>>
objectVars == <<fanVars, linkVars, intfVars, nodeVars>>

\* Total number of items the transport returns over the life of the object.
MaxRecords == 3

---------------------------------------------------------------------------
\* Python values

\* None where an item is expected (get_object's "not found").
None == [cls |-> "NoneType"]

\* None where a string is expected (the 'context' field of a bd record).
NoneStr == <<"NoneType">>

\* {} : the empty dict.
EmptyDict == <<>>

\* d[k] = v
DictSet(d, k, v) == (k :> v) @@ d

\* d.get(k): None when k is no key.
DictGet(d, k) == IF k \in DOMAIN d THEN d[k] ELSE None

\* ch in s, for a one-character ch.
Contains(s, ch) == \E i \in DOMAIN s : s[i] = ch

\* s.split(sep) for a one-character sep: never empty, "".split(sep) = [""].
RECURSIVE Split(_, _)
Split(s, sep) ==
    IF ~Contains(s, sep) THEN <<s>>
    ELSE LET i == CHOOSE k \in DOMAIN s : s[k] = sep /\ \A j \in 1..(k - 1) : s[j] # sep
         IN  <<SubSeq(s, 1, i - 1)>> \o Split(SubSeq(s, i + 1, Len(s)), sep)

\* sep.join(fields)
RECURSIVE Join(_, _)
Join(fields, sep) ==
    IF fields = <<>> THEN <<>>
    ELSE IF Len(fields) = 1 THEN fields[1]
    ELSE fields[1] \o <<sep>> \o Join(Tail(fields), sep)

\* s[0:n]: the first n characters, the whole of s when it is shorter.
Slice0(s, n) == SubSeq(s, 1, IF n < Len(s) THEN n ELSE Len(s))

\* item in lst (== on dicts compares them by value)
InList(item, lst) == \E i \in DOMAIN lst : lst[i] = item

\* An item of the decoded body.
Item(cls, attributes) == [cls |-> cls, attributes |-> attributes]

\* item[switch_class]['attributes']['dn']
DnOf(item) == item.attributes.dn

---------------------------------------------------------------------------
\* WorkingData._index_objects

\* Mutant: the controller is compared as a whole item only, never by dn.
ControllerFound_ItemOnly(item, lst) == FALSE

\* Mutant: a controller is looked for among the controllers only.
ControllerFound_ControllersOnly(item, lst) ==
    \E i \in DOMAIN lst :
        lst[i].attributes.role = "controller" /\ DnOf(item) = DnOf(lst[i])

\* The controller branch: a controller is inserted only if no item of the
\* class list has its dn.
ControllerFound(item, lst) == \E i \in DOMAIN lst : DnOf(item) = DnOf(lst[i])

\* Mutant: the dn test is applied to leaf and spine items as well.
AppendsFabricNode_AllRoles(item, lst) ==
    /\ item.attributes.role \in {"leaf", "spine", "controller"}
    /\ ~ControllerFound(item, lst)

\* Mutant: every role but leaf and spine takes the controller branch.
AppendsFabricNode_AnyOtherRole(item, lst) ==
    IF item.attributes.role \in {"leaf", "spine"} THEN TRUE
    ELSE IF ~InList(item, lst) THEN ~ControllerFound(item, lst)
         ELSE FALSE

\* Whether _index_objects appends a fabricNode item to by_class['fabricNode'].
AppendsFabricNode(item, lst) ==
    IF item.attributes.role \in {"leaf", "spine"} THEN TRUE
    ELSE IF item.attributes.role = "controller" /\ ~InList(item, lst)
         THEN ~ControllerFound(item, lst)
         ELSE FALSE

\* Whether _index_objects indexes an item at all.
IsIndexed(item) == item.cls # "error"

\* Mutant: an item already in its class list is not appended again.
AppendsToClass_NoDuplicates(item, lst) ==
    IF item.cls = "fabricNode" THEN AppendsFabricNode(item, lst) ELSE ~InList(item, lst)

\* Whether _index_objects appends an indexed item to its class list.
AppendsToClass(item, lst) ==
    IF item.cls = "fabricNode" THEN AppendsFabricNode(item, lst) ELSE TRUE

\* Mutant: the by_dn entry is written inside 'if switch_class not in
\* self.by_class', for the first item of a class only.
IndexItem_DnWhenNewClass(idx, item) ==
    IF ~IsIndexed(item) THEN idx
    ELSE LET dn1 == IF item.cls \in DOMAIN idx.by_class THEN idx.by_dn
                    ELSE DictSet(idx.by_dn, DnOf(item), item)
             bc0 == IF item.cls \in DOMAIN idx.by_class THEN idx.by_class
                    ELSE DictSet(idx.by_class, item.cls, <<>>)
             lst == bc0[item.cls]
         IN  [by_dn |-> dn1,
              by_class |-> IF AppendsToClass(item, lst)
                           THEN DictSet(bc0, item.cls, Append(lst, item))
                           ELSE bc0]

\* Mutant: the first item indexed under a dn is kept in by_dn.
IndexItem_FirstDnWins(idx, item) ==
    IF ~IsIndexed(item) THEN idx
    ELSE LET dn1 == IF DnOf(item) \in DOMAIN idx.by_dn THEN idx.by_dn
                    ELSE DictSet(idx.by_dn, DnOf(item), item)
             bc0 == IF item.cls \in DOMAIN idx.by_class THEN idx.by_class
                    ELSE DictSet(idx.by_class, item.cls, <<>>)
             lst == bc0[item.cls]
         IN  [by_dn |-> dn1,
              by_class |-> IF AppendsToClass(item, lst)
                           THEN DictSet(bc0, item.cls, Append(lst, item))
                           ELSE bc0]

\* Mutant: the test for 'error' guards the by_dn entry only.
IndexItem_ErrorInClass(idx, item) ==
    LET bc0 == IF item.cls \in DOMAIN idx.by_class THEN idx.by_class
               ELSE DictSet(idx.by_class, item.cls, <<>>)
        lst == bc0[item.cls]
    IN  [by_dn |-> IF IsIndexed(item) THEN DictSet(idx.by_dn, DnOf(item), item)
                   ELSE idx.by_dn,
         by_class |-> IF AppendsToClass(item, lst)
                      THEN DictSet(bc0, item.cls, Append(lst, item))
                      ELSE bc0]

\* One iteration of the loop over self.rawjson; idx = [by_dn, by_class].
IndexItem(idx, item) ==
    IF ~IsIndexed(item) THEN idx
    ELSE LET dn1 == DictSet(idx.by_dn, DnOf(item), item)
             bc0 == IF item.cls \in DOMAIN idx.by_class THEN idx.by_class
                    ELSE DictSet(idx.by_class, item.cls, <<>>)
             lst == bc0[item.cls]
         IN  [by_dn |-> dn1,
              by_class |-> IF AppendsToClass(item, lst)
                           THEN DictSet(bc0, item.cls, Append(lst, item))
                           ELSE bc0]

\* The loop over self.rawjson, in order.
RECURSIVE IndexObjects(_, _)
IndexObjects(idx, items) ==
    IF items = <<>> THEN idx
    ELSE IndexObjects(IndexItem(idx, Head(items)), Tail(items))

---------------------------------------------------------------------------
\* The lookups

\* WorkingData.get_class over a by_class dict.
get_class(bc, class_name) ==
    LET result == IF class_name \in DOMAIN bc THEN bc[class_name] ELSE <<>>
    IN  IF result = <<>> THEN <<>> ELSE result

\* Mutant: the prefix must end at a path segment.
SubtreeMatch_Segment(obj_dn, dname) ==
    /\ Slice0(obj_dn, Len(dname)) = dname
    /\ \/ dname = <<>>
       \/ Len(obj_dn) = Len(dname)
       \/ obj_dn[Len(dname) + 1] = "/"

\* The test of get_subtree: obj_dn[0:len(dname)] == dname.
SubtreeMatch(obj_dn, dname) == Slice0(obj_dn, Len(dname)) = dname

\* The loop of get_subtree over the class list.
RECURSIVE SubtreeLoop(_, _, _)
SubtreeLoop(classes, dname, result) ==
    IF classes = <<>> THEN result
    ELSE SubtreeLoop(Tail(classes), dname,
                     IF SubtreeMatch(DnOf(Head(classes)), dname)
                     THEN Append(result, Head(classes)) ELSE result)

\* WorkingData.get_subtree over a by_class dict.
get_subtree(bc, class_name, dname) == SubtreeLoop(get_class(bc, class_name), dname, <<>>)

\* Mutant: the first key that starts with dname is taken.
get_object_Prefix(bd, dname) ==
    LET hits == {k \in DOMAIN bd : Slice0(k, Len(dname)) = dname}
    IN  IF hits = {} THEN None
        ELSE bd[CHOOSE k \in hits : \A h \in hits : Len(k) <= Len(h)]

\* WorkingData.get_object over a by_dn dict.
get_object(bd, dname) == DictGet(bd, dname)

---------------------------------------------------------------------------
\* WorkingData.build_vnid_dictionary
\* v = [vnid_dict, ctx_dict, bd_dict, exc] is the state of the dictionaries
\* while the method runs; once exc is set the method has been left.
\* str() of the attribute values is the identity on the ASCII text modelled.

\* Mutant: the text after the last hyphen is taken.
CtxVnid_LastField(encap) ==
    IF Contains(encap, "-") THEN Split(encap, "-")[Len(Split(encap, "-"))] ELSE encap

\* The vnid of an L3 context, from its encap attribute.
CtxVnid(encap) ==
    IF Contains(encap, "-") THEN Split(encap, "-")[2] ELSE encap

\* Mutant: the reverse dictionary is written the wrong way round.
CtxStep_Swapped(v, ctx) ==
    LET vnid == CtxVnid(ctx.attributes.encap)
        name == ctx.attributes.name
        record == [name |-> name, type |-> "context"]
    IN  [v EXCEPT !.vnid_dict = DictSet(@, vnid, record),
                  !.ctx_dict = DictSet(@, vnid, name)]

\* One iteration of the loop over the L3 contexts.
CtxStep(v, ctx) ==
    LET class_id == IF ctx.cls = "l3Ctx" THEN "l3Ctx" ELSE "l3Inst"
        vnid == CtxVnid(ctx.attributes.encap)
        name == ctx.attributes.name
        record == [name |-> name, type |-> "context"]
    IN  [v EXCEPT !.vnid_dict = DictSet(@, vnid, record),
                  !.ctx_dict = DictSet(@, name, vnid)]

\* fabEncap.split('-')[1] raises IndexError when fabEncap has no hyphen.
BdVnidRaises(fabEncap) == Len(Split(fabEncap, "-")) < 2

\* The vnid of a bridge domain, from its fabEncap attribute.
BdVnid(fabEncap) == Split(fabEncap, "-")[2]

\* Mutant: the text before the first colon is taken.
BdName_FirstField(name, vnid) ==
    LET short == Split(name, ":")[1]
    IN  IF short = <<>> THEN vnid ELSE short

\* The short name of a bridge domain: name.split(':')[-1], the vnid if empty.
BdName(name, vnid) ==
    LET fields == Split(name, ":")
        short == fields[Len(fields)]
    IN  IF short = <<>> THEN vnid ELSE short

\* The dn of the owner of a bridge domain: its dn less the last segment.
ContextDn(dname) ==
    LET fields == Split(dname, "/")
    IN  Join(SubSeq(fields, 1, Len(fields) - 1), "/")

\* 'l3Ctx' in ctx_data raises TypeError when ctx_data is None.
BdContextRaises(ctx_data) == ctx_data = None

\* Mutant: only an l3Ctx owner is taken for a context.
BdContext_CtxOnly(ctx_data) ==
    IF ctx_data.cls = "l3Ctx" THEN ctx_data.attributes.name ELSE NoneStr

\* The context of a bridge domain, from the item found under ContextDn.
BdContext(ctx_data) ==
    IF ctx_data.cls = "l3Ctx" THEN ctx_data.attributes.name
    ELSE IF ctx_data.cls = "l3Inst" THEN ctx_data.attributes.name
    ELSE NoneStr

\* One iteration of the loop over the bridge domains.
BdStep(v, bdn, l2bd) ==
    IF v.exc # "none" THEN v
    ELSE IF BdVnidRaises(l2bd.attributes.fabEncap) THEN [v EXCEPT !.exc = "IndexError"]
    ELSE LET vnid == BdVnid(l2bd.attributes.fabEncap)
             name == BdName(l2bd.attributes.name, vnid)
             ctx_data == get_object(bdn, ContextDn(DnOf(l2bd)))
         IN  IF BdContextRaises(ctx_data) THEN [v EXCEPT !.exc = "TypeError"]
             ELSE LET record == [name |-> name, type |-> "bd",
                                 context |-> BdContext(ctx_data)]
                  IN  [v EXCEPT !.vnid_dict = DictSet(@, vnid, record),
                                !.bd_dict = DictSet(@, name, vnid)]

RECURSIVE CtxLoop(_, _)
CtxLoop(v, ctx_data) ==
    IF ctx_data = <<>> THEN v ELSE CtxLoop(CtxStep(v, Head(ctx_data)), Tail(ctx_data))

RECURSIVE BdLoop(_, _, _)
BdLoop(v, bdn, bd_data) ==
    IF bd_data = <<>> THEN v ELSE BdLoop(BdStep(v, bdn, Head(bd_data)), bdn, Tail(bd_data))

\* Mutant: ctx_data = self.get_class('l3Inst') without [:], which is the
\* list held in by_class when that list is not empty.
CtxDataRef_NoCopy(bc) ==
    [alias |-> ("l3Inst" \in DOMAIN bc /\ bc["l3Inst"] # <<>>),
     val |-> get_class(bc, "l3Inst")]

\* ctx_data = self.get_class('l3Inst')[:] : a list, and whether it is the
\* very list held in by_class['l3Inst'] (the slice makes it a copy).
CtxDataRef(bc) == [alias |-> FALSE, val |-> get_class(bc, "l3Inst")]

\* ctx_data.extend(more): ctx_data afterwards, and by_class afterwards,
\* which changes when ctx_data is the list it holds.
Extend(bc, ref, more) ==
    [ctx_data |-> ref.val \o more,
     by_class |-> IF ref.alias THEN DictSet(bc, "l3Inst", ref.val \o more) ELSE bc]

\* Mutant: the l3Ctx items are taken before the l3Inst items.
CtxData_CtxFirst(bc) == get_class(bc, "l3Ctx") \o get_class(bc, "l3Inst")

\* The contexts in the order the method takes them: l3Inst, then l3Ctx.
CtxData(bc) == Extend(bc, CtxDataRef(bc), get_class(bc, "l3Ctx")).ctx_data

\* by_class once build_vnid_dictionary has run.
ByClassAfterBuild(bc) == Extend(bc, CtxDataRef(bc), get_class(bc, "l3Ctx")).by_class

\* The whole method, over the index bc, bdn.
BuildVnidDictionary(v, bc, bdn) ==
    BdLoop(CtxLoop(v, CtxData(bc)), bdn, get_class(bc, "l2BD"))

---------------------------------------------------------------------------
\* The operations of a WorkingData object

NoSession == "None"
TheSession == "session"

\* Every decoded body of at most n items over the items U.
Bodies(U, n) == UNION {[1..k -> U] : k \in 0..n}

\* 'error' not in self.rawjson, for a list: the list holds dicts, and no dict
\* equals the string 'error', so the test passes for every list.
ErrorInList(items) == FALSE

\* WorkingData.add(session, ...) where session.get returns the body `data`.
add(sess, data) ==
    /\ session' = sess
    /\ ret' = [op |-> "add"]
    /\ UNCHANGED objectVars
    /\ IF sess = NoSession
       THEN /\ pc' = "ready"
            /\ UNCHANGED <<rawjson, by_class, by_dn, vnid_dict, ctx_dict, bd_dict, exc, batch>>
       ELSE IF data = <<>>
       THEN \* self.rawjson = None, and 'error' not in None raises TypeError
            /\ rawjson' = None
            /\ pc' = "raised"
            /\ exc' = "TypeError"
            /\ UNCHANGED <<by_class, by_dn, vnid_dict, ctx_dict, bd_dict, batch>>
       ELSE IF ErrorInList(data)
       THEN /\ rawjson' = data
            /\ pc' = "ready"
            /\ UNCHANGED <<by_class, by_dn, vnid_dict, ctx_dict, bd_dict, exc, batch>>
       ELSE LET idx == IndexObjects([by_dn |-> by_dn, by_class |-> by_class], data)
                v == BuildVnidDictionary(
                         [vnid_dict |-> vnid_dict, ctx_dict |-> ctx_dict,
                          bd_dict |-> bd_dict, exc |-> "none"],
                         idx.by_class, idx.by_dn)
            IN  /\ rawjson' = data
                /\ batch' = batch \o data
                /\ by_dn' = idx.by_dn
                /\ by_class' = ByClassAfterBuild(idx.by_class)
                /\ vnid_dict' = v.vnid_dict
                /\ ctx_dict' = v.ctx_dict
                /\ bd_dict' = v.bd_dict
                /\ exc' = v.exc
                /\ pc' = IF v.exc = "none" THEN "ready" ELSE "raised"

\* No fan was asked for, no Link and no Interface made.
NoFan == switch = None /\ calls = <<>> /\ parent = None
NoLink == link = None /\ pod = None /\ examined = <<>>
NoIntf == intf = None
NoNode == node_obj = None

\* The fields as WorkingData.__init__ sets them, before it calls add.
NewWorkingData ==
    /\ session = NoSession
    /\ rawjson = EmptyDict
    /\ by_class = EmptyDict
    /\ by_dn = EmptyDict
    /\ vnid_dict = EmptyDict
    /\ ctx_dict = EmptyDict
    /\ bd_dict = EmptyDict
    /\ pc = "new"
    /\ exc = "none"
    /\ batch = <<>>

Init == NewWorkingData /\ ret = [op |-> "none"] /\ NoFan /\ NoLink /\ NoIntf /\ NoNode

\* WorkingData(session, ...): the call of add that ends __init__.
Construct(U) ==
    /\ pc = "new"
    /\ \E sess \in {NoSession, TheSession} :
       \E data \in Bodies(U, MaxRecords) : add(sess, data)

\* A later call of add on the constructed object, with a session (with None
\* add only clears self.session and returns).
Add(U) ==
    /\ pc = "ready"
    /\ \E data \in Bodies(U, MaxRecords - Len(batch)) : add(TheSession, data)

\* Mutant: self.by_class[class_name], which raises KeyError on a class
\* that was never indexed.
GetClass_KeyError(QC) ==
    /\ pc = "ready"
    /\ \E class_name \in QC :
          IF class_name \in DOMAIN by_class
          THEN /\ ret' = [op |-> "get_class", class_name |-> class_name,
                          result |-> by_class[class_name]]
               /\ UNCHANGED <<pc, exc>>
          ELSE /\ ret' = [op |-> "get_class", class_name |-> class_name]
               /\ pc' = "raised"
               /\ exc' = "KeyError"
    /\ UNCHANGED objectVars
    /\ UNCHANGED <<session, rawjson, by_class, by_dn, vnid_dict, ctx_dict, bd_dict, batch>>

\* Mutant: self.by_class.setdefault(class_name, []), which enters a class
\* that was never indexed.
GetClass_SetDefault(QC) ==
    /\ pc = "ready"
    /\ \E class_name \in QC :
          /\ ret' = [op |-> "get_class", class_name |-> class_name,
                     result |-> get_class(by_class, class_name)]
          /\ by_class' = IF class_name \in DOMAIN by_class THEN by_class
                         ELSE DictSet(by_class, class_name, <<>>)
    /\ UNCHANGED objectVars
    /\ UNCHANGED <<session, rawjson, by_dn, vnid_dict, ctx_dict, bd_dict, pc, exc, batch>>

\* A call of get_class.
GetClass(QC) ==
    /\ pc = "ready"
    /\ \E class_name \in QC :
          ret' = [op |-> "get_class", class_name |-> class_name,
                  result |-> get_class(by_class, class_name)]
    /\ UNCHANGED objectVars
    /\ UNCHANGED <<session, rawjson, by_class, by_dn, vnid_dict, ctx_dict, bd_dict,
                   pc, exc, batch>>

\* A call of get_subtree.
GetSubtree(QC, QP) ==
    /\ pc = "ready"
    /\ \E class_name \in QC, dname \in QP :
          ret' = [op |-> "get_subtree", class_name |-> class_name, dname |-> dname,
                  result |-> get_subtree(by_class, class_name, dname)]
    /\ UNCHANGED objectVars
    /\ UNCHANGED <<session, rawjson, by_class, by_dn, vnid_dict, ctx_dict, bd_dict,
                   pc, exc, batch>>

\* A call of get_object.
GetObject(QD) ==
    /\ pc = "ready"
    /\ \E dname \in QD :
          ret' = [op |-> "get_object", dname |-> dname,
                  result |-> get_object(by_dn, dname)]
    /\ UNCHANGED objectVars
    /\ UNCHANGED <<session, rawjson, by_class, by_dn, vnid_dict, ctx_dict, bd_dict,
                   pc, exc, batch>>

---------------------------------------------------------------------------
\* The bodies and queries explored

\* dns
D_a == <<"a">>
D_ab == <<"a", "/", "b">>
D_abc == <<"a", "/", "b", "c">>
D_p == <<"p">>
D_q == <<"q">>
D_pb == <<"p", "/", "b">>
D_qb == <<"q", "/", "b">>
D_qc == <<"q", "/", "c">>
D_pbc == <<"p", "/", "b", "/", "c">>

FabricNode(dn, role, name) ==
    Item("fabricNode", [dn |-> dn, role |-> role, name |-> name])

Chassis(dn) == Item("eqptCh", [dn |-> dn])

ErrorItem == Item("error", [code |-> <<"4">>, text |-> <<"e">>])

L3Ctx(dn, encap, name) == Item("l3Ctx", [dn |-> dn, encap |-> encap, name |-> name])

L3Inst(dn, encap, name) == Item("l3Inst", [dn |-> dn, encap |-> encap, name |-> name])

L2BD(dn, fabEncap, name) == Item("l2BD", [dn |-> dn, fabEncap |-> fabEncap, name |-> name])

\* Items for the index: fabric nodes of every kind of role, two controllers
\* that differ only in their name, and an item of another class.
IndexRecords ==
    { FabricNode(D_ab, "controller", <<"x">>),
      FabricNode(D_ab, "controller", <<"y">>),
      FabricNode(D_abc, "controller", <<"x">>),
      FabricNode(D_ab, "leaf", <<"x">>),
      FabricNode(D_abc, "spine", <<"x">>),
      FabricNode(D_abc, "vleaf", <<"x">>),
      Chassis(D_ab),
      Chassis(D_abc) }

IndexClasses == {"fabricNode", "eqptCh", "vzBrCP"}

SubtreeClasses == {"fabricNode", "eqptCh"}

IndexDns == {D_a, D_ab, D_abc}

IndexPrefixes == {<<>>, D_ab, D_abc}

Next ==
    \/ Construct(IndexRecords)
    \/ Add(IndexRecords)
    \/ GetClass(IndexClasses)
    \/ GetSubtree(SubtreeClasses, IndexPrefixes)
    \/ GetObject(IndexDns)

Spec == Init /\ [][Next]_vars

\* Items for the vnid dictionaries: contexts of both classes whose encap has
\* no, one and two hyphens, bridge domains under a context, under another
\* bridge domain and under nothing, with and without a hyphen in fabEncap,
\* whose name ends in a colon, has one or has none, and an error item.
VnidRecords ==
    { L3Ctx(D_p, <<"v", "-", "1">>, <<"x">>),
      L3Inst(D_q, <<"1">>, <<"y">>),
      L3Ctx(D_q, <<"v", "-", "2", "-", "1">>, <<"y">>),
      L2BD(D_pb, <<"v", "-", "1">>, <<"t", ":", "x">>),
      L2BD(D_qb, <<"v", "-", "3", "-", "1">>, <<"t", ":">>),
      L2BD(D_qc, <<"3">>, <<"x">>),
      L2BD(D_pbc, <<"v", "-", "2">>, <<"x">>),
      ErrorItem }

VnidClasses == {"l2BD", "error", "vzBrCP"}

VnidDns == {D_p, D_qb}

VnidPrefixes == {D_pb}

NextVnid ==
    \/ Construct(VnidRecords)
    \/ Add(VnidRecords)
    \/ GetClass(VnidClasses)
    \/ GetSubtree({"l2BD"}, VnidPrefixes)
    \/ GetObject(VnidDns)

SpecVnid == Init /\ [][NextVnid]_vars

---------------------------------------------------------------------------
\* What the claims speak of, stated without the operators of the model

\* The items of a sequence that are tagged c, in order.
Tagged(items, c) == SelectSeq(items, LAMBDA it : it.cls = c)

\* Whether an item carries an identifier.
HasDn(item) == "dn" \in DOMAIN item.attributes

\* The identifiers of the items of a sequence are pairwise distinct.
DistinctDns(items) ==
    \A i, j \in DOMAIN items :
        (i # j /\ HasDn(items[i]) /\ HasDn(items[j])) => DnOf(items[i]) # DnOf(items[j])

\* p is a literal prefix of s.
IsLiteralPrefix(p, s) == Len(p) <= Len(s) /\ \A i \in 1..Len(p) : s[i] = p[i]

\* The fabricNode items of a sequence with the given roles (and dn), in order.
WithRole(items, roles) ==
    SelectSeq(items, LAMBDA it : it.cls = "fabricNode" /\ it.attributes.role \in roles)

ControllersAt(items, d) ==
    SelectSeq(items, LAMBDA it : /\ it.cls = "fabricNode"
                                 /\ it.attributes.role = "controller"
                                 /\ DnOf(it) = d)

\* The class names of a sequence of items.
ClassesOf(items) == {items[i].cls : i \in DOMAIN items}

\* The identifiers of a sequence of items.
DnsOf(items) == {DnOf(items[i]) : i \in {k \in DOMAIN items : HasDn(items[k])}}

---------------------------------------------------------------------------
\* C1: when the identifiers of the ingested items are pairwise distinct,
\* get_object(d) returns the ingested item whose dn is d, and None when no
\* ingested item has dn d (a dn that only starts like d does not count).
C1_GetObjectExact ==
    (ret.op = "get_object" /\ DistinctDns(batch)) =>
        LET hits == {i \in DOMAIN batch : HasDn(batch[i]) /\ DnOf(batch[i]) = ret.dname}
        IN  IF hits = {} THEN ret.result = None
            ELSE \A i \in hits : ret.result = batch[i]

\* C1 witness: two items with distinct identifiers, the second one returned.
C1_Witness ==
    /\ ret.op = "get_object"
    /\ Len(batch) >= 2
    /\ DistinctDns(batch)
    /\ ret.result = batch[2]

\* C2: get_class of a class name that tags no ingested item returns the
\* empty sequence and does not raise.
C2_GetClassUnknownEmpty ==
    (ret.op = "get_class" /\ ret.class_name \notin ClassesOf(batch)) =>
        /\ exc = "none"
        /\ pc = "ready"
        /\ ret.result = <<>>

\* C2 witness: items were ingested, and a class that tags none of them was asked for.
C2_Witness ==
    /\ ret.op = "get_class"
    /\ batch # <<>>
    /\ ret.class_name \notin ClassesOf(batch)
    /\ ret.result = <<>>

\* C3: get_class('fabricNode') holds at most one controller item per dn, and
\* the one it holds is the first controller item with that dn in the batch.
C3_ControllerFirstKept ==
    \A d \in DnsOf(batch) :
        LET kept == ControllersAt(get_class(by_class, "fabricNode"), d)
            given == ControllersAt(batch, d)
        IN  /\ Len(kept) <= 1
            /\ Len(kept) = 1 => kept[1] = given[1]

\* C3 witness: two controller items with one dn and different attributes
\* were ingested and the first of them is the one kept.
C3_Witness ==
    \E d \in DnsOf(batch) :
        LET kept == ControllersAt(get_class(by_class, "fabricNode"), d)
            given == ControllersAt(batch, d)
        IN  /\ Len(given) >= 2
            /\ given[1] # given[2]
            /\ kept = <<given[1]>>

\* C4: the leaf and spine items of get_class('fabricNode') are the leaf and
\* spine items of the batch, all of them, in batch order.
C4_LeafSpineAllKept ==
    WithRole(get_class(by_class, "fabricNode"), {"leaf", "spine"})
        = WithRole(batch, {"leaf", "spine"})

\* C4 witness: a leaf item ingested twice, after a controller with its dn,
\* is held twice.
C4_Witness ==
    LET kept == WithRole(get_class(by_class, "fabricNode"), {"leaf", "spine"})
    IN  /\ Len(batch) = 3
        /\ batch[1].attributes.role = "controller"
        /\ Len(kept) = 2
        /\ kept[1] = kept[2]
        /\ DnOf(batch[1]) = DnOf(kept[1])

\* C5: get_subtree(c, p) is get_class(c) restricted, in order and with
\* multiplicity, to the items whose dn has p as a literal prefix; with the
\* empty prefix it is get_class(c).
C5_SubtreeLiteralPrefix ==
    ret.op = "get_subtree" =>
        /\ ret.result = SelectSeq(get_class(by_class, ret.class_name),
                                  LAMBDA it : IsLiteralPrefix(ret.dname, DnOf(it)))
        /\ ret.dname = <<>> => ret.result = get_class(by_class, ret.class_name)

\* C5 witness: the prefix a/b selects an item at a/bc and one at a/b.
C5_Witness ==
    /\ ret.op = "get_subtree"
    /\ ret.dname = D_ab
    /\ \E i, j \in DOMAIN ret.result :
          DnOf(ret.result[i]) = D_abc /\ DnOf(ret.result[j]) = D_ab

\* C6 as claimed: for every class other than fabricNode, get_class(c) is the
\* sequence of the ingested items tagged c, in batch order, duplicates kept.
C6_Claimed ==
    \A c \in (ClassesOf(batch) \cup VnidClasses) \ {"fabricNode"} :
        get_class(by_class, c) = Tagged(batch, c)

\* C6 as amended: the same for every class other than fabricNode and the
\* tag 'error', whose items are not indexed.
C6_ClassOrderKept ==
    \A c \in (ClassesOf(batch) \cup VnidClasses) \ {"fabricNode", "error"} :
        get_class(by_class, c) = Tagged(batch, c)

\* C6 witness: three items of one class, the first ingested again after the
\* second, are held in that order.
C6_Witness ==
    \E c \in ClassesOf(batch) \ {"fabricNode", "error"} :
        LET kept == get_class(by_class, c)
        IN  /\ Len(kept) = 3
            /\ kept = batch
            /\ kept[1] = kept[3]
            /\ kept[1] # kept[2]

---------------------------------------------------------------------------
\* The vnid dictionaries, stated without the operators of the model

\* Positions of ch in s.
Positions(s, ch) == {i \in DOMAIN s : s[i] = ch}

\* The text of s after its last ch, the whole of s when it has none.
SuffixAfterLast(s, ch) ==
    IF Positions(s, ch) = {} THEN s
    ELSE LET i == CHOOSE k \in Positions(s, ch) : \A j \in Positions(s, ch) : j <= k
         IN  SubSeq(s, i + 1, Len(s))

\* The text of s before its first ch, the whole of s when it has none.
PrefixBeforeFirst(s, ch) ==
    IF Positions(s, ch) = {} THEN s
    ELSE LET i == CHOOSE k \in Positions(s, ch) : \A j \in Positions(s, ch) : k <= j
         IN  SubSeq(s, 1, i - 1)

\* The text of s after its first ch, the whole of s when it has none.
SuffixAfterFirst(s, ch) ==
    IF Positions(s, ch) = {} THEN s
    ELSE LET i == CHOOSE k \in Positions(s, ch) : \A j \in Positions(s, ch) : k <= j
         IN  SubSeq(s, i + 1, Len(s))

\* The text of s between its first and its second hyphen (to the end of s
\* when it has one hyphen only), the whole of s when it has none.
SecondHyphenField(s) == PrefixBeforeFirst(SuffixAfterFirst(s, "-"), "-")

\* The contexts and the bridge domains ingested, in the order
\* build_vnid_dictionary writes them.
ContextsIngested == Tagged(batch, "l3Inst") \o Tagged(batch, "l3Ctx")

BdsIngested == Tagged(batch, "l2BD")

\* dn is P followed by one more '/'-separated segment.
IsChildDn(dn, P) ==
    /\ Len(dn) > Len(P) + 1
    /\ IsLiteralPrefix(P, dn)
    /\ dn[Len(P) + 1] = "/"
    /\ \A i \in (Len(P) + 2)..Len(dn) : dn[i] # "/"

\* C7 as claimed: the entry of an L3 context is stored under the text of its
\* encap after the last hyphen (the whole encap when it has none) and is
\* {name, type 'context'}, unless a later context or a bridge domain has
\* taken that key.
C7_Claimed ==
    pc = "ready" =>
        \A i \in DOMAIN ContextsIngested :
            LET c == ContextsIngested[i]
                k == SuffixAfterLast(c.attributes.encap, "-")
            IN  /\ k \in DOMAIN vnid_dict
                /\ ( /\ \A j \in DOMAIN ContextsIngested :
                          j > i => SuffixAfterLast(ContextsIngested[j].attributes.encap, "-") # k
                     /\ \A j \in DOMAIN BdsIngested :
                          SuffixAfterLast(BdsIngested[j].attributes.fabEncap, "-") # k )
                   => vnid_dict[k] = [name |-> c.attributes.name, type |-> "context"]

\* C7 as amended: the key is the text of encap between its first and its
\* second hyphen (all the text after the hyphen when there is one only), the
\* whole encap when it has no hyphen; the entry is {name, type 'context'}
\* for an l3Ctx and for an l3Inst item alike.
C7_CtxVnidSecondField ==
    pc = "ready" =>
        \A i \in DOMAIN ContextsIngested :
            LET c == ContextsIngested[i]
                k == SecondHyphenField(c.attributes.encap)
            IN  /\ k \in DOMAIN vnid_dict
                /\ ( /\ \A j \in DOMAIN ContextsIngested :
                          j > i => SecondHyphenField(ContextsIngested[j].attributes.encap) # k
                     /\ \A j \in DOMAIN BdsIngested :
                          SecondHyphenField(BdsIngested[j].attributes.fabEncap) # k )
                   => vnid_dict[k] = [name |-> c.attributes.name, type |-> "context"]

\* C7 witness: an l3Ctx whose encap is v-2-1 was ingested after an l3Ctx of
\* another name, and its entry is stored under 2.
C7_Witness ==
    /\ pc = "ready"
    /\ Len(batch) = 2
    /\ batch[1].cls = "l3Ctx"
    /\ batch[1].attributes.name = <<"x">>
    /\ batch[2] = L3Ctx(D_q, <<"v", "-", "2", "-", "1">>, <<"y">>)
    /\ DOMAIN vnid_dict = {<<"1">>, <<"2">>}
    /\ vnid_dict[<<"2">>] = [name |-> <<"y">>, type |-> "context"]

\* C8 as claimed, for the case it singles out: a bridge domain whose
\* fabEncap has no hyphen is ingested without error and its entry is stored
\* under the whole fabEncap.
C8_Claimed ==
    \A i \in DOMAIN BdsIngested :
        LET b == BdsIngested[i]
        IN  Positions(b.attributes.fabEncap, "-") = {} =>
                /\ exc # "IndexError"
                /\ pc = "ready" =>
                      /\ b.attributes.fabEncap \in DOMAIN vnid_dict
                      /\ vnid_dict[b.attributes.fabEncap].type = "bd"

\* C9: the name stored for a bridge domain is the text of its name attribute
\* after the last colon (the whole name when it has no colon), and the
\* vnid under which it is stored when that text is empty.
C9_BdShortName ==
    pc = "ready" =>
        \A i \in DOMAIN BdsIngested :
            LET b == BdsIngested[i]
                k == SecondHyphenField(b.attributes.fabEncap)
                short == SuffixAfterLast(b.attributes.name, ":")
            IN  /\ k \in DOMAIN vnid_dict
                /\ (\A j \in DOMAIN BdsIngested :
                        j > i => SecondHyphenField(BdsIngested[j].attributes.fabEncap) # k)
                   => /\ vnid_dict[k].type = "bd"
                      /\ vnid_dict[k].name = IF short = <<>> THEN k ELSE short

\* C9 witness: a bridge domain named t:x is stored as x, and one whose name
\* has no colon is stored under its whole name.
C9_Witness ==
    /\ pc = "ready"
    /\ DOMAIN vnid_dict = {<<"1">>, <<"2">>}
    /\ vnid_dict[<<"1">>].type = "bd"
    /\ vnid_dict[<<"1">>].name = <<"x">>
    /\ \E i \in DOMAIN batch : batch[i].cls = "l2BD" /\ batch[i].attributes.name = <<"t", ":", "x">>
    /\ vnid_dict[<<"2">>].type = "bd"

\* C9 witness of the fallback: a bridge domain named t: is stored under 3 as 3.
C9_WitnessFallback ==
    /\ pc = "ready"
    /\ <<"3">> \in DOMAIN vnid_dict
    /\ vnid_dict[<<"3">>].type = "bd"
    /\ vnid_dict[<<"3">>].name = <<"3">>

\* C10: the entry of a bridge domain whose dn is P plus one segment has type
\* 'bd', and its context is the name of the item indexed under P when that
\* item is an l3Ctx or an l3Inst, and None when it is of another class.
C10_BdContext ==
    pc = "ready" =>
        \A i \in DOMAIN BdsIngested :
            LET b == BdsIngested[i]
                k == SecondHyphenField(b.attributes.fabEncap)
            IN  \A P \in DOMAIN by_dn :
                    ( /\ IsChildDn(DnOf(b), P)
                      /\ \A j \in DOMAIN BdsIngested :
                            j > i => SecondHyphenField(BdsIngested[j].attributes.fabEncap) # k )
                    => /\ k \in DOMAIN vnid_dict
                       /\ vnid_dict[k].type = "bd"
                       /\ vnid_dict[k].context =
                             IF by_dn[P].cls \in {"l3Ctx", "l3Inst"}
                             THEN by_dn[P].attributes.name
                             ELSE NoneStr

\* C10 witness: a bridge domain under an l3Inst has the name of the l3Inst
\* for its context, and a bridge domain under a bridge domain has None.
C10_Witness ==
    /\ pc = "ready"
    /\ D_q \in DOMAIN by_dn
    /\ by_dn[D_q].cls = "l3Inst"
    /\ <<"3">> \in DOMAIN vnid_dict
    /\ vnid_dict[<<"3">>].type = "bd"
    /\ vnid_dict[<<"3">>].context = by_dn[D_q].attributes.name

\* C10 witness of the other case: a bridge domain under a bridge domain has
\* the context None.
C10_WitnessNone ==
    /\ pc = "ready"
    /\ <<"2">> \in DOMAIN vnid_dict
    /\ vnid_dict[<<"2">>].type = "bd"
    /\ vnid_dict[<<"2">>].context = NoneStr

---------------------------------------------------------------------------
\* The key and the stored name of an ingested context or bridge domain, as
\* the amended C7 and C9 state them.
KeyOfCtx(c) == SecondHyphenField(c.attributes.encap)

KeyOfBd(b) == SecondHyphenField(b.attributes.fabEncap)

ShortNameOfBd(b) ==
    LET short == SuffixAfterLast(b.attributes.name, ":")
    IN  IF short = <<>> THEN KeyOfBd(b) ELSE short

\* The contexts have pairwise distinct names and vnids, the bridge domains
\* pairwise distinct short names and vnids, and no bridge domain has the
\* vnid of a context.
RoundTripBatch ==
    /\ \A i, j \in DOMAIN ContextsIngested :
          i # j => /\ ContextsIngested[i].attributes.name # ContextsIngested[j].attributes.name
                   /\ KeyOfCtx(ContextsIngested[i]) # KeyOfCtx(ContextsIngested[j])
    /\ \A i, j \in DOMAIN BdsIngested :
          i # j => /\ ShortNameOfBd(BdsIngested[i]) # ShortNameOfBd(BdsIngested[j])
                   /\ KeyOfBd(BdsIngested[i]) # KeyOfBd(BdsIngested[j])
    /\ \A i \in DOMAIN ContextsIngested, j \in DOMAIN BdsIngested :
          KeyOfCtx(ContextsIngested[i]) # KeyOfBd(BdsIngested[j])

\* C11: for such a batch, after ingest ctx_dict[name] is the vnid of the
\* context and vnid_dict[vnid].name its name, and bd_dict[short name] is the
\* vnid of the bridge domain and vnid_dict[vnid].name its short name.
C11_VnidRoundTrip ==
    (pc = "ready" /\ RoundTripBatch) =>
        /\ \A i \in DOMAIN ContextsIngested :
              LET c == ContextsIngested[i]
              IN  /\ c.attributes.name \in DOMAIN ctx_dict
                  /\ ctx_dict[c.attributes.name] = KeyOfCtx(c)
                  /\ KeyOfCtx(c) \in DOMAIN vnid_dict
                  /\ vnid_dict[KeyOfCtx(c)].name = c.attributes.name
        /\ \A i \in DOMAIN BdsIngested :
              LET b == BdsIngested[i]
              IN  /\ ShortNameOfBd(b) \in DOMAIN bd_dict
                  /\ bd_dict[ShortNameOfBd(b)] = KeyOfBd(b)
                  /\ KeyOfBd(b) \in DOMAIN vnid_dict
                  /\ vnid_dict[KeyOfBd(b)].name = ShortNameOfBd(b)
        /\ DOMAIN ctx_dict = {ContextsIngested[i].attributes.name : i \in DOMAIN ContextsIngested}
        /\ DOMAIN bd_dict = {ShortNameOfBd(BdsIngested[i]) : i \in DOMAIN BdsIngested}

\* C11 witness: two contexts and a bridge domain, all of distinct names and
\* vnids, were ingested.
C11_Witness ==
    /\ pc = "ready"
    /\ RoundTripBatch
    /\ Len(ContextsIngested) = 2
    /\ Len(BdsIngested) = 1
    /\ Cardinality(DOMAIN vnid_dict) = 3

\* C12: the contexts are written before the bridge domains, l3Inst before
\* l3Ctx: in the final vnid_dict a key that a bridge domain derives holds the
\* entry of the last such bridge domain (type 'bd'), and any other key holds
\* the entry of the last context deriving it in the order l3Inst, l3Ctx.
C12_WriteOrder ==
    pc = "ready" =>
        \A k \in DOMAIN vnid_dict :
            LET bs == {i \in DOMAIN BdsIngested : KeyOfBd(BdsIngested[i]) = k}
                cs == {i \in DOMAIN ContextsIngested : KeyOfCtx(ContextsIngested[i]) = k}
            IN  IF bs # {}
                THEN LET i == CHOOSE m \in bs : \A n \in bs : n <= m
                     IN  /\ vnid_dict[k].type = "bd"
                         /\ vnid_dict[k].name = ShortNameOfBd(BdsIngested[i])
                ELSE /\ cs # {}
                     /\ LET i == CHOOSE m \in cs : \A n \in cs : n <= m
                        IN  vnid_dict[k] = [name |-> ContextsIngested[i].attributes.name,
                                            type |-> "context"]

\* C12 witness: an l3Ctx ingested before an l3Inst of the same vnid keeps
\* the key, since the l3Inst items are written first.
C12_Witness ==
    /\ pc = "ready"
    /\ Len(batch) = 2
    /\ batch[1].cls = "l3Ctx"
    /\ batch[2].cls = "l3Inst"
    /\ KeyOfCtx(batch[1]) = KeyOfCtx(batch[2])
    /\ batch[1].attributes.name # batch[2].attributes.name
    /\ vnid_dict[KeyOfCtx(batch[1])].name = batch[1].attributes.name

\* C12 witness of the other case: a bridge domain of the vnid of a context
\* takes the key.
C12_WitnessBd ==
    /\ pc = "ready"
    /\ \E i \in DOMAIN ContextsIngested, j \in DOMAIN BdsIngested :
          /\ KeyOfCtx(ContextsIngested[i]) = KeyOfBd(BdsIngested[j])
          /\ vnid_dict[KeyOfBd(BdsIngested[j])].type = "bd"

---------------------------------------------------------------------------
\* The index over the life of the object

\* s is a prefix of t.
IsSeqPrefix(s, t) == Len(s) <= Len(t) /\ SubSeq(t, 1, Len(s)) = s

Lookups == {"get_class", "get_subtree", "get_object"}

\* C13 as claimed: once the constructor has returned, no operation changes
\* by_class, by_dn, vnid_dict, ctx_dict or bd_dict.
C13_Claimed ==
    [][pc = "ready" => UNCHANGED <<by_class, by_dn, vnid_dict, ctx_dict, bd_dict>>]_vars

\* C13 as amended: once the constructor has returned, the lookups change
\* none of these, and the only operation that does is add, which merges
\* the new body into the index: the class sequences are extended, the
\* entries of by_dn and of vnid_dict kept or overwritten.
C13_OnlyAddMerges ==
    [][pc = "ready" =>
         \/ UNCHANGED <<by_class, by_dn, vnid_dict, ctx_dict, bd_dict>>
         \/ /\ ret'.op = "add"
            /\ Len(batch') > Len(batch)
            /\ IsSeqPrefix(batch, batch')
            /\ \A c \in DOMAIN by_class :
                  c \in DOMAIN by_class' /\ IsSeqPrefix(by_class[c], by_class'[c])
            /\ DOMAIN by_dn \subseteq DOMAIN by_dn'
            /\ DOMAIN vnid_dict \subseteq DOMAIN vnid_dict']_vars

\* C13 witness: a body was merged into an index that held items already.
C13_Witness ==
    /\ pc = "ready"
    /\ ret.op = "add"
    /\ Len(rawjson) >= 1
    /\ Len(batch) > Len(rawjson)
    /\ \E c \in DOMAIN by_class : Len(by_class[c]) >= 2

\* C14: get_object(d) returns the last ingested item whose dn is d, whether
\* or not that item is held in by_class, and ingest of items of one dn
\* does not raise.
C14_LastDuplicateWins ==
    /\ ret.op = "get_object" =>
          LET hits == {i \in DOMAIN batch : HasDn(batch[i]) /\ DnOf(batch[i]) = ret.dname}
          IN  IF hits = {} THEN ret.result = None
              ELSE ret.result = batch[CHOOSE m \in hits : \A n \in hits : n <= m]
    /\ exc \in {"none", "TypeError"}
    /\ (exc = "TypeError") => rawjson = None

\* C14 witness: two controllers of one dn and different names were ingested;
\* by_class holds the first and get_object returns the second.
C14_Witness ==
    /\ ret.op = "get_object"
    /\ Len(batch) = 2
    /\ DnOf(batch[1]) = DnOf(batch[2])
    /\ batch[1] # batch[2]
    /\ get_class(by_class, "fabricNode") = <<batch[1]>>
    /\ ret.result = batch[2]

\* C15: a lookup leaves by_class and by_dn as they are, and after an ingest
\* they are what _index_objects made them: build_vnid_dictionary has not
\* changed them.
C15_LookupsAndBuildFrame ==
    [][/\ ret'.op \in Lookups => UNCHANGED <<by_class, by_dn>>
       /\ batch' # batch =>
             LET idx == IndexObjects([by_dn |-> by_dn, by_class |-> by_class],
                                     SubSeq(batch', Len(batch) + 1, Len(batch')))
             IN  by_class' = idx.by_class /\ by_dn' = idx.by_dn]_vars

\* C15 witness: an l3Inst and an l3Ctx were ingested, build_vnid_dictionary
\* has joined them, a lookup was made, and by_class['l3Inst'] holds the
\* l3Inst alone.
C15_Witness ==
    /\ ret.op \in Lookups
    /\ Cardinality(DOMAIN ctx_dict) = 2
    /\ "l3Inst" \in DOMAIN by_class
    /\ "l3Ctx" \in DOMAIN by_class
    /\ Len(by_class["l3Inst"]) = 1
    /\ by_class["l3Inst"] = Tagged(batch, "l3Inst")

\* C16: an item tagged 'error' is in no by_class sequence and under no
\* by_dn key, and by_class has no key 'error'; the other items of the batch
\* are indexed: each is found under its dn or a later item of that dn is,
\* and each is in the sequence of its class.
C16_ErrorNeverIndexed ==
    /\ "error" \notin DOMAIN by_class
    /\ \A c \in DOMAIN by_class : \A i \in DOMAIN by_class[c] : by_class[c][i].cls # "error"
    /\ \A k \in DOMAIN by_dn : by_dn[k].cls # "error"
    /\ \A i \in DOMAIN batch :
          batch[i].cls # "error" =>
              /\ DnOf(batch[i]) \in DOMAIN by_dn
              /\ batch[i].cls \in DOMAIN by_class
              /\ InList(batch[i], by_class[batch[i].cls])

\* C16 witness: an error item was ingested between two other items, which
\* are indexed.
C16_Witness ==
    /\ pc = "ready"
    /\ Len(batch) = 3
    /\ batch[2].cls = "error"
    /\ batch[1].cls # "error"
    /\ batch[3].cls # "error"
    /\ Cardinality(DOMAIN by_dn) = 2

\* C23 as claimed: the ingest of an empty body returns and leaves the
\* index and the vnid dictionaries empty.
C23_Claimed ==
    (ret.op = "add" /\ session = TheSession /\ batch = <<>>) =>
        /\ pc = "ready"
        /\ exc = "none"
        /\ by_class = EmptyDict
        /\ by_dn = EmptyDict
        /\ vnid_dict = EmptyDict
        /\ ctx_dict = EmptyDict
        /\ bd_dict = EmptyDict

\* C24: every item of a by_class sequence has its dn among the keys of
\* by_dn; every value of by_dn is an ingested item whose dn is its key; and
\* a value of by_dn is missing from the sequence of its class only when it
\* is a fabricNode that is neither leaf nor spine.
C24_IndexConsistent ==
    /\ \A c \in DOMAIN by_class : \A i \in DOMAIN by_class[c] :
          DnOf(by_class[c][i]) \in DOMAIN by_dn
    /\ \A k \in DOMAIN by_dn :
          /\ InList(by_dn[k], batch)
          /\ DnOf(by_dn[k]) = k
          /\ ~InList(by_dn[k], get_class(by_class, by_dn[k].cls)) =>
                /\ by_dn[k].cls = "fabricNode"
                /\ by_dn[k].attributes.role \notin {"leaf", "spine"}

\* C24 witness: by_dn holds a controller that by_class does not, and an
\* item of another class is held by both.
C24_Witness ==
    /\ pc = "ready"
    /\ \E k \in DOMAIN by_dn :
          /\ by_dn[k].cls = "fabricNode"
          /\ by_dn[k].attributes.role = "controller"
          /\ ~InList(by_dn[k], get_class(by_class, "fabricNode"))
    /\ Len(get_class(by_class, "eqptCh")) = 1
    /\ DnOf(by_class["eqptCh"][1]) \in DOMAIN by_dn
    /\ by_dn[DnOf(by_class["eqptCh"][1])] = by_class["eqptCh"][1]

OtherRole(item) ==
    item.cls = "fabricNode" /\ item.attributes.role \notin {"leaf", "spine", "controller"}

\* C25: a fabricNode that is neither leaf, spine nor controller is not in
\* get_class('fabricNode') but is under its dn in by_dn, and is what
\* get_object returns for that dn unless a later item of the same dn took
\* its place; when every fabricNode ingested is such, get_class('fabricNode')
\* is empty.
C25_OtherRolesByDnOnly ==
    /\ \A i \in DOMAIN batch :
          OtherRole(batch[i]) =>
              /\ ~InList(batch[i], get_class(by_class, "fabricNode"))
              /\ DnOf(batch[i]) \in DOMAIN by_dn
              /\ (\A j \in DOMAIN batch :
                     (j > i /\ HasDn(batch[j])) => DnOf(batch[j]) # DnOf(batch[i]))
                 => /\ by_dn[DnOf(batch[i])] = batch[i]
                    /\ (ret.op = "get_object" /\ ret.dname = DnOf(batch[i]))
                          => ret.result = batch[i]
    /\ (\A i \in DOMAIN batch : batch[i].cls = "fabricNode" => OtherRole(batch[i]))
          => get_class(by_class, "fabricNode") = <<>>

\* C25 witness: vleaf items alone were ingested; by_class['fabricNode'] is
\* there and empty, and get_object returned the vleaf.
C25_Witness ==
    /\ batch # <<>>
    /\ \A i \in DOMAIN batch : OtherRole(batch[i])
    /\ "fabricNode" \in DOMAIN by_class
    /\ by_class["fabricNode"] = <<>>
    /\ ret.op = "get_object"
    /\ ret.result = batch[1]

\* The fabricNode items retained, as C26 words the rule: a leaf or a spine
\* always, a controller when no item retained before it has its dn, any
\* other role never.
RECURSIVE RetainedNodes(_, _)
RetainedNodes(items, kept) ==
    IF items = <<>> THEN kept
    ELSE LET it == Head(items)
             keep == \/ it.attributes.role \in {"leaf", "spine"}
                     \/ /\ it.attributes.role = "controller"
                        /\ \A k \in DOMAIN kept : DnOf(kept[k]) # DnOf(it)
         IN  RetainedNodes(Tail(items), IF keep THEN Append(kept, it) ELSE kept)

\* C26: get_class('fabricNode') is what that rule retains of the fabricNode
\* items in the order they were ingested.
C26_SuppressionByAnyRole ==
    get_class(by_class, "fabricNode") = RetainedNodes(Tagged(batch, "fabricNode"), <<>>)

\* C26 witness: a leaf, then a controller of its dn: the controller is
\* dropped.
C26_Witness ==
    /\ Len(batch) = 2
    /\ batch[1].cls = "fabricNode" /\ batch[1].attributes.role = "leaf"
    /\ batch[2].cls = "fabricNode" /\ batch[2].attributes.role = "controller"
    /\ DnOf(batch[1]) = DnOf(batch[2])
    /\ get_class(by_class, "fabricNode") = <<batch[1]>>

\* C26 witness of the other order: a controller, then a leaf of its dn:
\* both are held.
C26_WitnessOtherOrder ==
    /\ Len(batch) = 2
    /\ batch[1].cls = "fabricNode" /\ batch[1].attributes.role = "controller"
    /\ batch[2].cls = "fabricNode" /\ batch[2].attributes.role = "leaf"
    /\ DnOf(batch[1]) = DnOf(batch[2])
    /\ get_class(by_class, "fabricNode") = batch

\* The text of s before its last ch, empty when it has none.
PrefixBeforeLast(s, ch) ==
    IF Positions(s, ch) = {} THEN <<>>
    ELSE LET i == CHOOSE k \in Positions(s, ch) : \A j \in Positions(s, ch) : j <= k
         IN  SubSeq(s, 1, i - 1)

\* C27 as claimed: when the dn of a bridge domain without its last segment
\* is the dn of no ingested item, the ingest does not fail on it and the
\* bridge domain is entered in vnid_dict with the context None.
C27_Claimed ==
    \A i \in DOMAIN BdsIngested :
        LET b == BdsIngested[i]
        IN  ( /\ PrefixBeforeLast(DnOf(b), "/") \notin DnsOf(batch)
              /\ Positions(b.attributes.fabEncap, "-") # {} )
            => /\ exc # "TypeError"
               /\ pc = "ready" =>
                     /\ KeyOfBd(b) \in DOMAIN vnid_dict
                     /\ vnid_dict[KeyOfBd(b)].type = "bd" => vnid_dict[KeyOfBd(b)].context = NoneStr

---------------------------------------------------------------------------
\* Fan.get
\*
\* A dn is only concatenated and compared here, so it is a string; a url is
\* the sequence of the pieces the code concatenates.  A Fan refers to its
\* parent by the parent's dn, "None" when it has none.

\* Largest number of eqptFan items the switch answers the fan query with.
MaxFans == 2

\* {cls: {'attributes': attributes, 'children': children}}
ItemWithChildren(cls, attributes, children) ==
    [cls |-> cls, attributes |-> attributes, children |-> children]

\* The query for the fans under a parent.
FanSubtreeUrl(dn) ==
    <<"/api/mo/", dn, ".json?query-target=subtree&target-subtree-class=", "eqptFan">>

\* The query for every fan of the switch.
FanClassUrl == <<"/api/node/class/eqptFan.json?", "query-target=self">>

\* The query for the statistics of one fan.
FanStatsUrl(dn) ==
    <<"/api/mo/", dn, ".json?rsp-subtree-include=stats&rsp-subtree-class=eqptFanStats5min">>

\* session.get(url).json()['imdata']: the fans to either fan query, the
\* statistics of the fan named to the other.
SessionGet(sw, url) == IF Len(url) = 3 THEN sw.stats[url[2]] ELSE sw.fans

\* cls.check_session(session): the type of the exception raised, or "none".
CheckSession(sess) == IF sess = TheSession THEN "none" ELSE "TypeError"

\* cls.check_parent(parent): the type of the exception raised, or "none".
CheckParent(par) == IF par = None \/ par.cls = "Fantray" THEN "none" ELSE "TypeError"

\* Mutant: the statistics are looked for among all the children.
FanSpeed_AnyChild(stat_data) ==
    IF /\ stat_data # <<>>
       /\ stat_data[1].cls = "eqptFan"
       /\ "children" \in DOMAIN stat_data[1]
       /\ \E i \in DOMAIN stat_data[1].children :
             stat_data[1].children[i].cls = "eqptFanStats5min"
    THEN LET ch == stat_data[1].children
             k == CHOOSE i \in DOMAIN ch :
                     /\ ch[i].cls = "eqptFanStats5min"
                     /\ \A j \in DOMAIN ch : ch[j].cls = "eqptFanStats5min" => i <= j
         IN  ch[k].attributes.speedLast
    ELSE "unknown"

\* fan.speed, from the answer to the statistics query; str() of the text
\* of an attribute is that text.
FanSpeed(stat_data) ==
    IF /\ stat_data # <<>>
       /\ stat_data[1].cls = "eqptFan"
       /\ "children" \in DOMAIN stat_data[1]
       /\ stat_data[1].children # <<>>
       /\ stat_data[1].children[1].cls = "eqptFanStats5min"
    THEN stat_data[1].children[1].attributes.speedLast
    ELSE "unknown"

\* The Fan made of one item of the answer, of its speed and of the parent.
NewFan(fan_obj, speed, par) ==
    [cls |-> "Fan",
     dn |-> fan_obj.attributes.dn,
     id |-> fan_obj.attributes.id,
     descr |-> fan_obj.attributes.descr,
     oper_st |-> fan_obj.attributes.operSt,
     direction |-> fan_obj.attributes.dir,
     model |-> fan_obj.attributes.model,
     serial |-> fan_obj.attributes.ser,
     speed |-> speed,
     _parent |-> IF par = None THEN "None" ELSE par.dn]

\* parent.add_child(fan)
AddChild(children, obj) == Append(children, obj)

\* The loop over node_data; acc = [fans, calls, children], the list
\* returned, the urls asked so far and the children of the parent.
RECURSIVE FanLoop(_, _, _, _)
FanLoop(sw, par, node_data, acc) ==
    IF node_data = <<>> THEN acc
    ELSE LET fan_obj == Head(node_data)
             mo_query_url == FanStatsUrl(fan_obj.attributes.dn)
             stat_data == SessionGet(sw, mo_query_url)
             fan == NewFan(fan_obj, FanSpeed(stat_data), par)
         IN  FanLoop(sw, par, Tail(node_data),
                     [fans |-> Append(acc.fans, fan),
                      calls |-> Append(acc.calls, mo_query_url),
                      children |-> IF par # None THEN AddChild(acc.children, fan)
                                   ELSE acc.children])

\* A call of Fan.get(session, parent), once.
FanGet ==
    /\ ret.op = "none"
    /\ \E sess \in {NoSession, TheSession} :
          IF CheckSession(sess) # "none" \/ CheckParent(parent) # "none"
          THEN /\ ret' = [op |-> "Fan.get", raised |-> "TypeError"]
               /\ UNCHANGED <<calls, parent>>
          ELSE LET mo_query_url == IF parent # None THEN FanSubtreeUrl(parent.dn)
                                   ELSE FanClassUrl
                   node_data == SessionGet(switch, mo_query_url)
                   r == FanLoop(switch, parent, node_data,
                                [fans |-> <<>>, calls |-> <<mo_query_url>>,
                                 children |-> IF parent = None THEN <<>>
                                              ELSE parent.children])
               IN  /\ ret' = [op |-> "Fan.get", raised |-> "none", result |-> r.fans]
                   /\ calls' = r.calls
                   /\ parent' = IF parent = None THEN parent
                                ELSE [parent EXCEPT !.children = r.children]
    /\ UNCHANGED <<indexVars, switch, linkVars, intfVars, nodeVars>>

\* The fans of the switch.
FanDn1 == "sys/ch/ftslot-1/ft/fan-1"
FanDn2 == "sys/ch/ftslot-1/ft/fan-2"
FanDns == {FanDn1, FanDn2}

EqptFan(dn, id) ==
    Item("eqptFan", [dn |-> dn, id |-> id, descr |-> "Fan", operSt |-> "ok",
                     dir |-> "front2back", model |-> "N9K-C9300-FAN2", ser |-> "N/A"])

FanItems == {EqptFan(FanDn1, "1"), EqptFan(FanDn2, "2")}

EqptFanStats5min(speedLast) == Item("eqptFanStats5min", [speedLast |-> speedLast])

\* The answers to a statistics query: nothing, an item of another class, a
\* fan without 'children', without a child, whose first child is of another
\* class, whose first child is the statistics, and an item of another
\* class before the fan.
StatBodies ==
    LET attrs == [dn |-> FanDn1]
        full == ItemWithChildren("eqptFan", attrs, <<EqptFanStats5min("4200")>>)
    IN  { <<>>,
          <<Item("eqptFt", attrs)>>,
          <<Item("eqptFan", attrs)>>,
          <<ItemWithChildren("eqptFan", attrs, <<>>)>>,
          <<ItemWithChildren("eqptFan", attrs,
                             <<Item("eqptFanStats15min", [speedLast |-> "9"]),
                               EqptFanStats5min("3000")>>)>>,
          <<full>>,
          <<Item("eqptFt", attrs), full>> }

Switches ==
    {[fans |-> f, stats |-> st] : f \in Bodies(FanItems, MaxFans), st \in [FanDns -> StatBodies]}

\* The parents handed to Fan.get: none, a fantray, and a node.
Fantray1 == [cls |-> "Fantray", dn |-> "sys/ch/ftslot-1/ft", children |-> <<>>]
NotAFantray == [cls |-> "Node", dn |-> "sys", children |-> <<>>]

InitFan ==
    /\ NewWorkingData
    /\ ret = [op |-> "none"]
    /\ switch \in Switches
    /\ calls = <<>>
    /\ parent \in {None, Fantray1, NotAFantray}
    /\ NoLink
    /\ NoIntf
    /\ NoNode

NextFan == FanGet

SpecFan == InitFan /\ [][NextFan]_vars

\* Whether the first item of a body is an eqptFan whose first child is an
\* eqptFanStats5min.
FirstChildIsStats(body) ==
    /\ Len(body) >= 1
    /\ body[1].cls = "eqptFan"
    /\ "children" \in DOMAIN body[1]
    /\ Len(body[1].children) >= 1
    /\ body[1].children[1].cls = "eqptFanStats5min"

\* C17: a call of Fan.get that returns has asked the fan query once and
\* then one statistics query per item answered, in the order of the items;
\* it returns one Fan per item, in that order, whose speed is the speedLast
\* of the first child of the first item of its statistics when that is an
\* eqptFanStats5min of an eqptFan, and 'unknown' otherwise.
C17_FanGetQueries ==
    (ret.op = "Fan.get" /\ ret.raised = "none") =>
        LET recs == switch.fans
        IN  /\ Len(calls) = 1 + Len(recs)
            /\ Len(calls[1]) # 3
            /\ calls[1] = IF parent = None
                          THEN <<"/api/node/class/eqptFan.json?", "query-target=self">>
                          ELSE <<"/api/mo/", parent.dn,
                                 ".json?query-target=subtree&target-subtree-class=",
                                 "eqptFan">>
            /\ \A i \in DOMAIN recs :
                  calls[i + 1] =
                      <<"/api/mo/", recs[i].attributes.dn,
                        ".json?rsp-subtree-include=stats&rsp-subtree-class=eqptFanStats5min">>
            /\ Len(ret.result) = Len(recs)
            /\ \A i \in DOMAIN recs :
                  LET body == switch.stats[recs[i].attributes.dn]
                  IN  /\ ret.result[i].dn = recs[i].attributes.dn
                      /\ ret.result[i].id = recs[i].attributes.id
                      /\ ret.result[i].speed =
                             IF FirstChildIsStats(body)
                             THEN body[1].children[1].attributes.speedLast
                             ELSE "unknown"

\* C17 witness: two fans were answered; the statistics of the first hold an
\* eqptFanStats5min as second child only, those of the second as first.
C17_Witness ==
    /\ ret.op = "Fan.get"
    /\ ret.raised = "none"
    /\ Len(ret.result) = 2
    /\ Len(calls) = 3
    /\ ret.result[1].dn # ret.result[2].dn
    /\ Len(switch.stats[ret.result[1].dn]) = 1
    /\ "children" \in DOMAIN switch.stats[ret.result[1].dn][1]
    /\ Len(switch.stats[ret.result[1].dn][1].children) = 2
    /\ ret.result[1].speed = "unknown"
    /\ ret.result[2].speed = "4200"

---------------------------------------------------------------------------
\* Link
\*
\* An object of the tree under a pod is a record of its class, its fields
\* and the sequence of its children.  The ids of nodes, slots and ports are
\* only compared, so they are strings.  The outcome of an accessor is
\* [raised, result, examined]: the type of the exception it raised or
\* "none", the object returned, and the get_children calls it made.

\* obj.get_children(cls): the children of that class, in order.
get_children(obj, cls) == SelectSeq(obj.children, LAMBDA c : c.cls = cls)

\* The first object of a list among those at the positions that pass the
\* test, None when none does: a loop that returns at the first match.
FirstAt(objs, hits) ==
    IF hits = {} THEN None
    ELSE objs[CHOOSE i \in hits : \A j \in hits : i <= j]

\* Mutant: the accessors do not look at self._parent first.
ParentCheck_Skipped(par) == "none"

\* if not self._parent: raise TypeError(...)
ParentCheck(par) == IF par = None THEN "TypeError" ELSE "none"

Raised(e) == [raised |-> e, result |-> None, examined |-> <<>>]

\* self._parent.get_children(Node) and the loop that follows, for the node
\* id of one end.
get_node(par, node_id) ==
    IF ParentCheck(par) # "none" THEN Raised(ParentCheck(par))
    ELSE IF par = None THEN Raised("AttributeError")
    ELSE [raised |-> "none",
          result |-> LET nodes == get_children(par, "Node")
                     IN  FirstAt(nodes, {i \in DOMAIN nodes : nodes[i].node = node_id}),
          examined |-> <<[obj |-> par, cls |-> "Node"]>>]

get_node1(self, par) == get_node(par, self.node1)

get_node2(self, par) == get_node(par, self.node2)

\* The linecard of one end: the parent check, the outcome of get_node,
\* then the linecards of the node.
get_slot(par, got, slot_id) ==
    IF ParentCheck(par) # "none" THEN Raised(ParentCheck(par))
    ELSE IF got.raised # "none" THEN got
    ELSE IF got.result # None
    THEN [raised |-> "none",
          result |-> LET linecards == get_children(got.result, "Linecard")
                     IN  FirstAt(linecards,
                                 {i \in DOMAIN linecards : linecards[i].slot = slot_id}),
          examined |-> Append(got.examined, [obj |-> got.result, cls |-> "Linecard"])]
    ELSE [raised |-> "none", result |-> None, examined |-> got.examined]

get_slot1(self, par) == get_slot(par, get_node1(self, par), self.slot1)

get_slot2(self, par) == get_slot(par, get_node2(self, par), self.slot2)

\* The interface of one end: the parent check, the linecard, then its
\* interfaces.
get_port(par, linecard, port_id) ==
    IF ParentCheck(par) # "none" THEN Raised(ParentCheck(par))
    ELSE IF linecard.raised # "none" THEN linecard
    ELSE IF linecard.result # None
    THEN [raised |-> "none",
          result |-> LET interfaces == get_children(linecard.result, "Interface")
                     IN  FirstAt(interfaces,
                                 {i \in DOMAIN interfaces : interfaces[i].port = port_id}),
          examined |-> Append(linecard.examined,
                              [obj |-> linecard.result, cls |-> "Interface"])]
    ELSE [raised |-> "none", result |-> None, examined |-> linecard.examined]

\* Mutant: the port of the first end is looked for on the linecard of the
\* second.
get_port1_OtherEnd(self, par) == get_port(par, get_slot2(self, par), self.port1)

get_port1(self, par) == get_port(par, get_slot1(self, par), self.port1)

get_port2(self, par) == get_port(par, get_slot2(self, par), self.port2)

\* Link.__eq__
LinkEq(self, other) ==
    IF self.cls # other.cls THEN FALSE
    ELSE /\ self.pod = other.pod
         /\ self.node1 = other.node1
         /\ self.slot1 = other.slot1
         /\ self.port1 = other.port1

\* A call of an accessor of the link, with its outcome.
LinkCall(name, r) ==
    /\ ret' = [op |-> name, raised |-> r.raised, result |-> r.result]
    /\ examined' = r.examined
    /\ UNCHANGED <<indexVars, fanVars, link, pod, intfVars, nodeVars>>

GetNode1 == LinkCall("get_node1", get_node1(link, pod))
GetNode2 == LinkCall("get_node2", get_node2(link, pod))
GetSlot1 == LinkCall("get_slot1", get_slot1(link, pod))
GetSlot2 == LinkCall("get_slot2", get_slot2(link, pod))
GetPort1 == LinkCall("get_port1", get_port1(link, pod))
GetPort2 == LinkCall("get_port2", get_port2(link, pod))

\* link == other
Eq(Others) ==
    /\ \E other \in Others :
          ret' = [op |-> "__eq__", other |-> other, result |-> LinkEq(link, other)]
    /\ UNCHANGED <<indexVars, fanVars, linkVars, intfVars, nodeVars>>

\* The objects of the tree.
InterfaceObject(port) == [cls |-> "Interface", port |-> port, children |-> <<>>]
LinecardObject(slot, children) == [cls |-> "Linecard", slot |-> slot, children |-> children]
NodeObject(node, children) == [cls |-> "Node", node |-> node, children |-> children]
PodObject(children) == [cls |-> "Pod", children |-> children]

LinkObject(pod_id, link_id, n1, s1, p1, n2, s2, p2) ==
    [cls |-> "Link", pod |-> pod_id, link |-> link_id,
     node1 |-> n1, slot1 |-> s1, port1 |-> p1,
     node2 |-> n2, slot2 |-> s2, port2 |-> p2]

Link0 == LinkObject("1", "1", "101", "1", "1", "102", "1", "2")

\* Link0 and the links that differ from it in one field.
Links ==
    { Link0,
      [Link0 EXCEPT !.pod = "2"],
      [Link0 EXCEPT !.link = "2"],
      [Link0 EXCEPT !.node1 = "103"],
      [Link0 EXCEPT !.slot1 = "2"],
      [Link0 EXCEPT !.port1 = "3"],
      [Link0 EXCEPT !.node2 = "103"],
      [Link0 EXCEPT !.slot2 = "2"],
      [Link0 EXCEPT !.port2 = "3"] }

\* What a link is compared with: the links, and an object of another class
\* that has the fields of Link0.
Comparands == Links \cup {[Link0 EXCEPT !.cls = "ExternalSwitch"]}

\* The pods: both nodes with linecards and interfaces, beside the link
\* itself; one node without linecards; no children.
Pods ==
    { PodObject(<<Link0,
            NodeObject("101", <<LinecardObject("1", <<InterfaceObject("1"), InterfaceObject("2")>>)>>),
            NodeObject("102", <<LinecardObject("1", <<InterfaceObject("2"),
                                                      InterfaceObject("3")>>)>>)>>),
      PodObject(<<NodeObject("101", <<>>)>>),
      PodObject(<<>>) }

InitLink ==
    /\ NewWorkingData
    /\ ret = [op |-> "none"]
    /\ NoFan
    /\ link \in Links
    /\ pod \in {None} \cup Pods
    /\ examined = <<>>
    /\ NoIntf
    /\ NoNode

NextLink ==
    \/ GetNode1
    \/ GetNode2
    \/ GetSlot1
    \/ GetSlot2
    \/ GetPort1
    \/ GetPort2
    \/ Eq(Comparands)

SpecLink == InitLink /\ [][NextLink]_vars

LinkAccessors ==
    {"get_node1", "get_node2", "get_slot1", "get_slot2", "get_port1", "get_port2"}

\* C18: on a link whose parent is unset every accessor raises TypeError,
\* calls get_children of no object, and leaves the link as it was.
C18_MissingParentRaises ==
    [][(pod = None /\ ret'.op \in LinkAccessors) =>
          /\ ret'.raised = "TypeError"
          /\ examined' = <<>>
          /\ link' = link
          /\ pod' = None]_vars

\* C18 witness: get_port2 was called on a link without parent and raised.
C18_Witness ==
    /\ pod = None
    /\ ret.op = "get_port2"
    /\ ret.raised = "TypeError"
    /\ examined = <<>>

\* The children of an object that are of a class.
ChildrenOf(obj, cls) == {obj.children[i] : i \in {j \in DOMAIN obj.children : obj.children[j].cls = cls}}

\* What the resolution of one end may return and examine, for the ids of
\* that end: an interface only at the end of a chain pod, node, linecard,
\* interface whose ids match; None, and nothing examined below, from the
\* first level without a match.
EndResolved(p, r, ex, node_id, slot_id, port_id) ==
    LET nodes == {n \in ChildrenOf(p, "Node") : n.node = node_id}
        cards == UNION {{lc \in ChildrenOf(n, "Linecard") : lc.slot = slot_id} : n \in nodes}
        ports == UNION {{i \in ChildrenOf(lc, "Interface") : i.port = port_id} : lc \in cards}
    IN  /\ r.raised = "none"
        /\ r.result # None => r.result \in ports
        /\ nodes = {} => (r.result = None /\ Len(ex) = 1)
        /\ (nodes # {} /\ cards = {}) => (r.result = None /\ Len(ex) = 2)
        /\ (cards # {} /\ ports = {}) => (r.result = None /\ Len(ex) = 3)
        /\ \A k \in DOMAIN ex : ex[k].cls = <<"Node", "Linecard", "Interface">>[k]

\* C21: with a parent set, get_port1 and get_port2 return an interface only
\* when it is a child of a linecard of the slot, itself a child of a node
\* of the node id, itself a child of the parent; they return None from the
\* first level without a match; and they change neither the tree nor the
\* link.
C21_PortResolution ==
    [][pod # None =>
          /\ ret'.op = "get_port1" =>
                /\ EndResolved(pod, ret', examined', link.node1, link.slot1, link.port1)
                /\ pod' = pod /\ link' = link
          /\ ret'.op = "get_port2" =>
                /\ EndResolved(pod, ret', examined', link.node2, link.slot2, link.port2)
                /\ pod' = pod /\ link' = link]_vars

\* C21 witness: get_port1 walked the three levels and returned the
\* interface of port1.
C21_Witness ==
    /\ pod # None
    /\ ret.op = "get_port1"
    /\ ret.result # None
    /\ ret.result.cls = "Interface"
    /\ ret.result.port = link.port1
    /\ Len(examined) = 3

\* C21 witness: get_port2 found the node and no linecard of the slot, and
\* returned None.
C21_WitnessNone ==
    /\ pod # None
    /\ ret.op = "get_port2"
    /\ ret.result = None
    /\ Len(examined) = 2
    /\ link.slot2 = "2"

\* C19 as claimed: two links are equal exactly when they are of the same
\* class and have the same pod and the same node, slot and port at both
\* ends, whatever their link ids.
C19_Claimed ==
    ret.op = "__eq__" =>
        (ret.result <=>
            /\ link.cls = ret.other.cls
            /\ link.pod = ret.other.pod
            /\ link.node1 = ret.other.node1
            /\ link.slot1 = ret.other.slot1
            /\ link.port1 = ret.other.port1
            /\ link.node2 = ret.other.node2
            /\ link.slot2 = ret.other.slot2
            /\ link.port2 = ret.other.port2)

---------------------------------------------------------------------------
\* Interface
\*
\* Names, paths and dns are split and sliced, so they are sequences of
\* one-character strings.  A call that can raise yields [raised, result].

\* s[n:]: what follows the first n characters.
SliceFrom(s, n) == SubSeq(s, n + 1, Len(s))

\* sub in s, for strings.
ContainsSub(s, sub) ==
    \E i \in 1..(Len(s) - Len(sub) + 1) : SubSeq(s, i, i + Len(sub) - 1) = sub

\* s.replace(sub, ''): every occurrence of sub removed, from the left.
RECURSIVE Remove(_, _)
Remove(s, sub) ==
    IF Len(s) < Len(sub) \/ sub = <<>> THEN s
    ELSE IF SubSeq(s, 1, Len(sub)) = sub THEN Remove(SliceFrom(s, Len(sub)), sub)
    ELSE <<Head(s)>> \o Remove(Tail(s), sub)

Eth == <<"e", "t", "h">>

Returns(v) == [raised |-> "none", result |-> v]
Raises(e) == [raised |-> e, result |-> None]

\* Interface(if_name): the fields the constructor sets from the name.
NewInterface(if_name) ==
    IF ContainsSub(if_name, Eth)
    THEN LET fields == Split(Remove(if_name, Eth), "/")
         IN  IF Len(fields) # 2 THEN Raises("ValueError")
             ELSE Returns([cls |-> "Interface",
                           interface_type |-> Eth,
                           id |-> if_name,
                           if_type |-> Slice0(if_name, 3),
                           module |-> fields[1],
                           port |-> fields[2],
                           if_name |-> if_name])
    ELSE Raises("TypeError")

\* 'sys/intf/phys-[eth%s/%s]' % (self.module, self.port)
_get_path(self) ==
    <<"s", "y", "s", "/", "i", "n", "t", "f", "/", "p", "h", "y", "s", "-", "[", "e", "t", "h">>
      \o self.module \o <<"/">> \o self.port \o <<"]">>

\* The parse shared by _parse_physical_dn and _parse_path_dn: the module
\* is cut out of field k and the port out of field k + 1, counted from 0.
ParseFields(dn, k) ==
    LET name == Split(dn, "/")
    IN  IF Len(name) < k + 1 THEN Raises("IndexError")
        ELSE LET cut == Split(name[k + 1], "[")
             IN  IF Len(cut) < 2 THEN Raises("IndexError")
                 ELSE IF Len(name) < k + 2 THEN Raises("IndexError")
                 ELSE Returns(<<Slice0(cut[2], 3), SliceFrom(cut[2], 3),
                                Split(name[k + 2], "]")[1]>>)

_parse_physical_dn(dn) == ParseFields(dn, 2)

_parse_path_dn(dn) == ParseFields(dn, 1)

parse_dn(dn) ==
    IF InList(<<"s", "y", "s">>, Split(dn, "/")) THEN _parse_physical_dn(dn)
    ELSE _parse_path_dn(dn)

\* intf = Interface(if_name), once.
MakeInterface(Names) ==
    /\ intf = None
    /\ \E if_name \in Names :
          LET r == NewInterface(if_name)
          IN  /\ ret' = [op |-> "Interface", if_name |-> if_name, raised |-> r.raised]
              /\ intf' = r.result
    /\ UNCHANGED <<indexVars, fanVars, linkVars, nodeVars>>

\* intf._get_path()
GetPath ==
    /\ intf # None
    /\ ret' = [op |-> "_get_path", raised |-> "none", result |-> _get_path(intf)]
    /\ UNCHANGED <<indexVars, fanVars, linkVars, intf, nodeVars>>

\* Interface.parse_dn(dn) of a given dn.
ParseDn(Dns) ==
    /\ \E dn \in Dns :
          LET r == parse_dn(dn)
          IN  ret' = [op |-> "parse_dn", dn |-> dn, of |-> None,
                      raised |-> r.raised, result |-> r.result]
    /\ UNCHANGED <<indexVars, fanVars, linkVars, intf, nodeVars>>

\* Interface.parse_dn(intf._get_path())
ParsePath ==
    /\ intf # None
    /\ LET r == parse_dn(_get_path(intf))
       IN  ret' = [op |-> "parse_dn", dn |-> _get_path(intf), of |-> intf,
                   raised |-> r.raised, result |-> r.result]
    /\ UNCHANGED <<indexVars, fanVars, linkVars, intf, nodeVars>>

\* Modules and ports of one and of two digits.
Modules == {<<"1">>, <<"1", "0">>}
Ports == {<<"1">>, <<"2">>, <<"4", "8">>}

\* 'eth<M>/<P>', and two names the constructor refuses.
IfNames ==
    {Eth \o m \o <<"/">> \o p : m \in Modules, p \in Ports}
        \cup {<<"p", "o", "1">>, <<"e", "t", "h", "1">>}

\* <prefix>phys-[eth<M>/<P>]
PhysDn(prefix, m, p) ==
    prefix \o <<"p", "h", "y", "s", "-", "[", "e", "t", "h">> \o m \o <<"/">> \o p \o <<"]">>

SysPrefix == <<"s", "y", "s", "/">>
SysIntfPrefix == <<"s", "y", "s", "/", "i", "n", "t", "f", "/">>
NodePrefix == <<"n", "o", "d", "e", "-", "1", "/">>

\* The dns parsed: both shapes under sys, and one that is not under sys.
ParsedDns ==
    {PhysDn(pre, m, p) : pre \in {SysPrefix, SysIntfPrefix, NodePrefix},
                         m \in Modules, p \in Ports}

InitIntf ==
    /\ NewWorkingData
    /\ ret = [op |-> "none"]
    /\ NoFan
    /\ NoLink
    /\ intf = None
    /\ NoNode

NextIntf ==
    \/ MakeInterface(IfNames)
    \/ GetPath
    \/ ParseDn(ParsedDns)
    \/ ParsePath

SpecIntf == InitIntf /\ [][NextIntf]_vars

\* C20 as claimed: parse_dn of 'sys/phys-[eth<M>/<P>]' and of
\* 'sys/intf/phys-[eth<M>/<P>]' returns ('eth', M, P), and so does parse_dn
\* of the path of Interface('eth<M>/<P>').
C20_Claimed ==
    ret.op = "parse_dn" =>
        /\ \A m \in Modules, p \in Ports :
              ret.dn \in {PhysDn(SysPrefix, m, p), PhysDn(SysIntfPrefix, m, p)} =>
                  (ret.raised = "none" /\ ret.result = <<Eth, m, p>>)
        /\ ret.of # None =>
              /\ ret.raised = "none"
              /\ \A m \in Modules, p \in Ports :
                    ret.of.if_name = Eth \o m \o <<"/">> \o p => ret.result = <<Eth, m, p>>

---------------------------------------------------------------------------
\* Node
\*
\* A dn is sliced by get_subtree, so it is a sequence of one-character
\* strings, and so are the pod and node ids that are formatted into one.
\* The other attributes are only copied and compared: they are strings.
\* The WorkingData handed to a method is the record [by_dn, by_class] of its
\* two dictionaries.

\* None in a field that holds text.
NoneText == "NoneType"

\* The fields of a Node as __init__ leaves them, with the pod, node and dn
\* that the population from the fabricNode item gives it.  __init__ does not
\* create ivxlan_udp_port: "<unset>" stands for the missing attribute.
NewNode(pod_id, node_id, dn) ==
    [cls |-> "Node", pod |-> pod_id, node |-> node_id, dn |-> dn,
     role |-> "leaf", fabricSt |-> NoneText, ipAddress |-> NoneText,
     tep_ip |-> NoneText, macAddress |-> NoneText, state |-> NoneText,
     mode |-> NoneText, operSt |-> NoneText, operStQual |-> NoneText,
     descr |-> NoneText,
     num_ps_slots |-> 0, num_fan_slots |-> 0, num_sup_slots |-> 0, num_lc_slots |-> 0,
     num_ps_modules |-> 0, num_fan_modules |-> 0, num_sup_modules |-> 0,
     num_lc_modules |-> 0, num_ports |-> 0,
     inb_mgmt_ip |-> NoneText, oob_mgmt_ip |-> NoneText, system_uptime |-> NoneText,
     vpc_info |-> None, dynamic_load_balancing_mode |-> NoneText,
     ivxlan_udp_port |-> "<unset>"]

\* 'topology/pod-{0}/node-{1}/sys/vpc/inst'.format(self.pod, self.node)
VpcInstDn(pod_id, node_id) ==
    <<"t", "o", "p", "o", "l", "o", "g", "y", "/", "p", "o", "d", "-">> \o pod_id
      \o <<"/", "n", "o", "d", "e", "-">> \o node_id
      \o <<"/", "s", "y", "s", "/", "v", "p", "c", "/", "i", "n", "s", "t">>

\* vpc_admin_state: the adminSt of the item under partial_dn when that is
\* a vpcInst.
VpcAdminState(data) ==
    IF data # None /\ data.cls = "vpcInst" THEN data.attributes.adminSt ELSE "disabled"

\* Mutant: the vpcDom items are looked at whatever the admin state.
VpcActive_AnyAdminState(vpc_admin_state, data) ==
    data # <<>> /\ data[1].cls = "vpcDom"

\* Whether oper_state is 'active': data is the vpcDom subtree of partial_dn.
VpcActive(vpc_admin_state, data) ==
    vpc_admin_state = "enabled" /\ data # <<>> /\ data[1].cls = "vpcDom"

\* The vpc_info that Node._add_vpc_info stores.
_add_vpc_info(self, working_data) ==
    LET partial_dn == VpcInstDn(self.pod, self.node)
        vpc_admin_state == VpcAdminState(get_object(working_data.by_dn, partial_dn))
        data == get_subtree(working_data.by_class, "vpcDom", partial_dn)
    IN  IF VpcActive(vpc_admin_state, data)
        THEN LET vpc_dom == data[1].attributes
             IN  [admin_state |-> vpc_admin_state,
                  oper_state |-> "active",
                  domain_id |-> vpc_dom.id,
                  system_mac |-> vpc_dom.sysMac,
                  local_mac |-> vpc_dom.localMAC,
                  monitoring_policy |-> vpc_dom.monPolDn,
                  peer_ip |-> vpc_dom.peerIp,
                  peer_mac |-> vpc_dom.peerMAC,
                  peer_version |-> vpc_dom.peerVersion,
                  peer_state |-> vpc_dom.peerSt,
                  vtep_ip |-> vpc_dom.virtualIp,
                  vtep_mac |-> vpc_dom.vpcMAC,
                  oper_role |-> vpc_dom.operRole]
        ELSE [admin_state |-> vpc_admin_state, oper_state |-> "inactive"]

\* The subsequence of a sequence at the positions in S.
RECURSIVE Pick(_, _)
Pick(items, S) ==
    IF items = <<>> THEN <<>>
    ELSE (IF Len(items) \in S THEN Pick(SubSeq(items, 1, Len(items) - 1), S) \o <<items[Len(items)]>>
          ELSE Pick(SubSeq(items, 1, Len(items) - 1), S))

\* The WorkingData objects indexed from the subsequences of a body.
IndexesOf(body) ==
    {IndexObjects([by_dn |-> EmptyDict, by_class |-> EmptyDict], Pick(body, S)) :
        S \in SUBSET DOMAIN body}

\* node._add_vpc_info(working_data)
AddVpcInfo(Indexes) ==
    /\ \E working_data \in Indexes :
          /\ node_obj' = [node_obj EXCEPT !.vpc_info = _add_vpc_info(node_obj, working_data)]
          /\ ret' = [op |-> "_add_vpc_info", working_data |-> working_data]
    /\ UNCHANGED <<indexVars, fanVars, linkVars, intfVars>>

Pod1 == <<"1">>
Node1 == <<"1">>

\* 'topology/pod-<pod>/node-<node>'
NodeDn(pod_id, node_id) ==
    <<"t", "o", "p", "o", "l", "o", "g", "y", "/", "p", "o", "d", "-">> \o pod_id
      \o <<"/", "n", "o", "d", "e", "-">> \o node_id

VpcDom(dn, id) ==
    Item("vpcDom", [dn |-> dn, id |-> id, sysMac |-> "00:23:04:EE:BE:01",
                    localMAC |-> "00:00:00:00:00:01", monPolDn |-> "uni/fabric/monfab-default",
                    peerIp |-> "10.0.0.2", peerMAC |-> "00:00:00:00:00:02",
                    peerVersion |-> "1", peerSt |-> "up", virtualIp |-> "10.0.0.9",
                    vpcMAC |-> "00:23:04:EE:BE:02", operRole |-> "master"])

\* The items about vpc: the vpcInst of node 2, enabled; an item of another
\* class and then a vpcInst, disabled and then enabled, under the dn of the
\* vpcInst of node 1; a vpcDom of node 2 and two of node 1.
VpcBody ==
    LET inst1 == VpcInstDn(Pod1, Node1)
        inst2 == VpcInstDn(Pod1, <<"2">>)
        dom == <<"/", "d", "o", "m">>
    IN  << Item("vpcInst", [dn |-> inst2, adminSt |-> "enabled"]),
           Item("vpcEntity", [dn |-> inst1]),
           Item("vpcInst", [dn |-> inst1, adminSt |-> "disabled"]),
           Item("vpcInst", [dn |-> inst1, adminSt |-> "enabled"]),
           VpcDom(inst2 \o dom, "20"),
           VpcDom(inst1 \o dom, "10"),
           VpcDom(inst1 \o dom \o <<"2">>, "11") >>

InitVpc ==
    /\ NewWorkingData
    /\ ret = [op |-> "none"]
    /\ NoFan
    /\ NoLink
    /\ NoIntf
    /\ node_obj = NewNode(Pod1, Node1, NodeDn(Pod1, Node1))

\* The WorkingData objects a call may be given.
VpcIndexes == IndexesOf(VpcBody)

NextVpc == AddVpcInfo(VpcIndexes)

SpecVpc == InitVpc /\ [][NextVpc]_vars

\* C22: after _add_vpc_info, vpc_info has admin_state and oper_state;
\* admin_state is the adminSt of the vpcInst indexed under
\* 'topology/pod-<pod>/node-<node>/sys/vpc/inst' and 'disabled' when no
\* vpcInst is indexed there; oper_state is 'active' when admin_state is
\* 'enabled' and the dn of some vpcDom indexed starts with that dn, and
\* 'inactive' otherwise; the domain and peer fields are there exactly when
\* oper_state is 'active'.
C22_VpcInfo ==
    ret.op = "_add_vpc_info" =>
        LET wd == ret.working_data
            v == node_obj.vpc_info
            P == <<"t", "o", "p", "o", "l", "o", "g", "y", "/", "p", "o", "d", "-">> \o node_obj.pod
                   \o <<"/", "n", "o", "d", "e", "-">> \o node_obj.node
                   \o <<"/", "s", "y", "s", "/", "v", "p", "c", "/", "i", "n", "s", "t">>
            doms == get_class(wd.by_class, "vpcDom")
        IN  /\ {"admin_state", "oper_state"} \subseteq DOMAIN v
            /\ v.admin_state =
                  IF P \in DOMAIN wd.by_dn /\ wd.by_dn[P].cls = "vpcInst"
                  THEN wd.by_dn[P].attributes.adminSt
                  ELSE "disabled"
            /\ v.oper_state \in {"active", "inactive"}
            /\ v.oper_state = "active" <=>
                  /\ v.admin_state = "enabled"
                  /\ \E i \in DOMAIN doms : IsLiteralPrefix(P, DnOf(doms[i]))
            /\ \A f \in {"domain_id", "system_mac", "local_mac", "monitoring_policy",
                         "peer_ip", "peer_mac", "peer_version", "peer_state",
                         "vtep_ip", "vtep_mac", "oper_role"} :
                  f \in DOMAIN v <=> v.oper_state = "active"

\* C22 witness: vpc is enabled and the first vpcDom of the node gave the
\* domain fields, a vpcDom of another node being indexed before it.
C22_Witness ==
    /\ ret.op = "_add_vpc_info"
    /\ node_obj.vpc_info.oper_state = "active"
    /\ node_obj.vpc_info.domain_id = "10"
    /\ Len(get_class(ret.working_data.by_class, "vpcDom")) = 3

\* C22 witness of the other cases: a vpcDom of the node is indexed and vpc
\* is disabled, so oper_state is 'inactive'.
C22_WitnessInactive ==
    /\ ret.op = "_add_vpc_info"
    /\ node_obj.vpc_info = [admin_state |-> "disabled", oper_state |-> "inactive"]
    /\ Len(get_class(ret.working_data.by_class, "vpcInst")) = 1
    /\ Len(get_class(ret.working_data.by_class, "vpcDom")) = 2

---------------------------------------------------------------------------
\* Node._get_topsystem_info

\* str(attributes.get(key)): the text 'None' when the key is missing.
StrGet(attributes, key) == IF key \in DOMAIN attributes THEN attributes[key] ELSE "None"

\* self.dn + '/sys'
SysDn(dn) == dn \o <<"/", "s", "y", "s">>

\* self.dn + '/sys/ch'
ChDn(dn) == dn \o <<"/", "s", "y", "s", "/", "c", "h">>

\* The loop that counts the slots whose operSt is 'inserted'.
RECURSIVE CountInserted(_)
CountInserted(node_data) ==
    IF node_data = <<>> THEN 0
    ELSE CountInserted(Tail(node_data))
           + (IF Head(node_data).attributes.operSt = "inserted" THEN 1 ELSE 0)

\* The loop over lb_data: the dlbMode of the last topoctrlLbP item in it.
RECURSIVE LbLoop(_, _)
LbLoop(lb_data, mode) ==
    IF lb_data = <<>> THEN mode
    ELSE LbLoop(Tail(lb_data),
                IF Head(lb_data).cls = "topoctrlLbP"
                THEN Head(lb_data).attributes.dlbMode ELSE mode)

\* Whether the item under self.dn + '/sys' is there and is a topSystem.
TopSystemFound(self, working_data) ==
    LET node_data == get_object(working_data.by_dn, SysDn(self.dn))
    IN  node_data # None /\ node_data.cls = "topSystem"

\* The Node after Node._get_topsystem_info(working_data).
_get_topsystem_info(self, working_data) ==
    IF ~TopSystemFound(self, working_data) THEN self
    ELSE
    LET top == get_object(working_data.by_dn, SysDn(self.dn)).attributes
        ch == get_object(working_data.by_dn, ChDn(self.dn))
        hasCh == ch # None /\ ch.cls = "eqptCh"
        ports == get_subtree(working_data.by_class, "l1PhysIf", SysDn(self.dn))
        fans == get_subtree(working_data.by_class, "eqptFtSlot", SysDn(self.dn))
        lcs == get_subtree(working_data.by_class, "eqptLCSlot", ChDn(self.dn))
        psus == get_subtree(working_data.by_class, "eqptPsuSlot", ChDn(self.dn))
        sups == get_subtree(working_data.by_class, "eqptSupCSlot", ChDn(self.dn))
        lb_data == get_subtree(working_data.by_class, "eqptSupCSlot", SysDn(self.dn))
    IN  [self EXCEPT
            !.ipAddress = top.address,
            !.tep_ip = top.address,
            !.macAddress = top.fabricMAC,
            !.state = top.state,
            !.mode = top.mode,
            !.oob_mgmt_ip = StrGet(top, "oobMgmtAddr"),
            !.inb_mgmt_ip = StrGet(top, "inbMgmtAddr"),
            !.system_uptime = StrGet(top, "systemUpTime"),
            !.operSt = IF hasCh THEN ch.attributes.operSt ELSE @,
            !.operStQual = IF hasCh THEN ch.attributes.operStQual ELSE @,
            !.descr = IF hasCh THEN ch.attributes.descr ELSE @,
            !.num_ports = IF ports # <<>> THEN Len(ports) ELSE @,
            !.num_fan_slots = IF fans # <<>> THEN Len(fans) ELSE @,
            !.num_fan_modules = CountInserted(fans),
            !.num_lc_slots = Len(lcs),
            !.num_lc_modules = CountInserted(lcs),
            !.num_ps_slots = Len(psus),
            !.num_ps_modules = CountInserted(psus),
            !.num_sup_slots = Len(sups),
            !.num_sup_modules = CountInserted(sups),
            !.dynamic_load_balancing_mode = LbLoop(lb_data, "unknown"),
            !.ivxlan_udp_port = "unknown"]

\* node._get_topsystem_info(working_data)
GetTopsystemInfo(Indexes) ==
    /\ \E working_data \in Indexes :
          /\ node_obj' = _get_topsystem_info(node_obj, working_data)
          /\ ret' = [op |-> "_get_topsystem_info", working_data |-> working_data]
    /\ UNCHANGED <<indexVars, fanVars, linkVars, intfVars>>

\* The items about node 1: its topSystem, a port, a filled fan slot, a
\* filled linecard slot, an empty power supply slot, a filled supervisor
\* slot and the load balancing policy.
TopBody ==
    LET sys == SysDn(NodeDn(Pod1, Node1))
        ch == ChDn(NodeDn(Pod1, Node1))
    IN  << Item("topSystem", [dn |-> sys, address |-> "10.0.0.1",
                              fabricMAC |-> "00:22:BD:F8:19:FF", state |-> "in-service",
                              mode |-> "unspecified", oobMgmtAddr |-> "192.168.0.1",
                              systemUpTime |-> "00:01:02:03.000"]),
           Item("l1PhysIf", [dn |-> sys \o <<"/", "p", "1">>]),
           Item("eqptFtSlot", [dn |-> ch \o <<"/", "f", "1">>, operSt |-> "inserted"]),
           Item("eqptLCSlot", [dn |-> ch \o <<"/", "l", "1">>, operSt |-> "inserted"]),
           Item("eqptPsuSlot", [dn |-> ch \o <<"/", "p", "1">>, operSt |-> "empty"]),
           Item("eqptSupCSlot", [dn |-> ch \o <<"/", "s", "1">>, operSt |-> "inserted"]),
           Item("topoctrlLbP", [dn |-> sys \o <<"/", "l", "b">>,
                                dlbMode |-> "dynamic-aggressive"]) >>

InitTop ==
    /\ NewWorkingData
    /\ ret = [op |-> "none"]
    /\ NoFan
    /\ NoLink
    /\ NoIntf
    /\ node_obj = NewNode(Pod1, Node1, NodeDn(Pod1, Node1))

\* The WorkingData objects a call may be given.
TopIndexes == IndexesOf(TopBody)

NextTop == GetTopsystemInfo(TopIndexes)

SpecTop == InitTop /\ [][NextTop]_vars

\* The items of a class in the index of the last call whose dn starts with
\* a prefix.
Under(cls, prefix) ==
    LET objs == get_class(ret.working_data.by_class, cls)
    IN  {i \in DOMAIN objs : IsLiteralPrefix(prefix, DnOf(objs[i]))}

InsertedUnder(cls, prefix) ==
    LET objs == get_class(ret.working_data.by_class, cls)
    IN  {i \in Under(cls, prefix) : objs[i].attributes.operSt = "inserted"}

\* The last call was _get_topsystem_info and it found the topSystem.
TopSystemRead ==
    /\ ret.op = "_get_topsystem_info"
    /\ SysDn(node_obj.dn) \in DOMAIN ret.working_data.by_dn
    /\ ret.working_data.by_dn[SysDn(node_obj.dn)].cls = "topSystem"

\* C28: after _get_topsystem_info has found the topSystem,
\* dynamic_load_balancing_mode is the dlbMode of the topoctrlLbP indexed
\* under the node's '/sys' when there is one, and 'unknown' only when there
\* is none.
C28_Claimed ==
    TopSystemRead =>
        LET lbs == get_class(ret.working_data.by_class, "topoctrlLbP")
            under == Under("topoctrlLbP", SysDn(node_obj.dn))
        IN  /\ under # {} =>
                  \E i \in under :
                      node_obj.dynamic_load_balancing_mode = lbs[i].attributes.dlbMode
            /\ node_obj.dynamic_load_balancing_mode = "unknown" => under = {}

\* C29: after every _get_topsystem_info that has found the topSystem, the
\* slot count of each kind is the number of slot items of that kind under
\* the node in the index of that call, the module count is the number of
\* those whose operSt is 'inserted' and is at most the slot count, and
\* num_ports is the number of l1PhysIf items under the node's '/sys'.
C29_Claimed ==
    TopSystemRead =>
        LET sys == SysDn(node_obj.dn)
            ch == ChDn(node_obj.dn)
        IN  /\ node_obj.num_lc_slots = Cardinality(Under("eqptLCSlot", ch))
            /\ node_obj.num_lc_modules = Cardinality(InsertedUnder("eqptLCSlot", ch))
            /\ node_obj.num_sup_slots = Cardinality(Under("eqptSupCSlot", ch))
            /\ node_obj.num_sup_modules = Cardinality(InsertedUnder("eqptSupCSlot", ch))
            /\ node_obj.num_ps_slots = Cardinality(Under("eqptPsuSlot", ch))
            /\ node_obj.num_ps_modules = Cardinality(InsertedUnder("eqptPsuSlot", ch))
            /\ node_obj.num_fan_slots = Cardinality(Under("eqptFtSlot", sys))
            /\ node_obj.num_fan_modules = Cardinality(InsertedUnder("eqptFtSlot", sys))
            /\ node_obj.num_lc_modules <= node_obj.num_lc_slots
            /\ node_obj.num_sup_modules <= node_obj.num_sup_slots
            /\ node_obj.num_ps_modules <= node_obj.num_ps_slots
            /\ node_obj.num_fan_modules <= node_obj.num_fan_slots
            /\ node_obj.num_ports = Cardinality(Under("l1PhysIf", sys))

===========================================================================
